---- MODULE Spec2Model ----
(***************************************************************************)
(* Model of the UTXO management and transaction-building subsystem of the  *)
(* BSV Go SDK: pkg/bsv/utxo/manager.go (cache, discovery, selection) and   *)
(* the transaction builder (validate, select, assemble, sign, broadcast).  *)
(***************************************************************************)
EXTENDS Integers, Sequences, FiniteSets, TLC

(***************************************************************************)
(* Bounds of the model.                                                    *)
(***************************************************************************)
\* int64 is modelled as a two's complement word of IntBits bits
IntBits == 20
\* longest output list of the pure selection specification
MaxLen == 3

(***************************************************************************)
(* Fixed-width arithmetic (Go int64, scaled to IntBits bits).              *)
(***************************************************************************)
RECURSIVE Pow2(_)
Pow2(n) == IF n = 0 THEN 1 ELSE 2 * Pow2(n - 1)

Wrap(x) ==
    LET m == Pow2(IntBits)
        r == x % m
    IN  IF r >= m \div 2 THEN r - m ELSE r

Add64(a, b) == Wrap(a + b)
Sub64(a, b) == Wrap(a - b)
(***************************************************************************)
(* Sequence helpers.                                                       *)
(***************************************************************************)
RECURSIVE SumValues(_)
SumValues(s) ==
    IF s = <<>> THEN 0 ELSE Add64(SumValues(SubSeq(s, 1, Len(s) - 1)), s[Len(s)].value)

Swap(s, j) == [s EXCEPT ![j] = s[j + 1], ![j + 1] = s[j]]

(***************************************************************************)
(* Manager.sortUTXOsByValue: bubble sort of a copy, largest value first;   *)
(* adjacent elements are exchanged only when strictly out of order.        *)
(***************************************************************************)
\* mutant: adjacent elements of equal value are exchanged too
RECURSIVE BubbleInnerValueUnstable(_, _, _)
BubbleInnerValueUnstable(s, j, lim) ==
    IF j > lim THEN s
    ELSE BubbleInnerValueUnstable(IF s[j].value <= s[j + 1].value THEN Swap(s, j) ELSE s,
                                  j + 1, lim)

RECURSIVE BubbleInnerValue(_, _, _)
BubbleInnerValue(s, j, lim) ==
    IF j > lim THEN s
    ELSE BubbleInnerValue(IF s[j].value < s[j + 1].value THEN Swap(s, j) ELSE s, j + 1, lim)

RECURSIVE BubbleOuterValue(_, _)
BubbleOuterValue(s, i) ==
    IF i >= Len(s) - 1 THEN s
    ELSE BubbleOuterValue(BubbleInnerValue(s, 1, Len(s) - i - 1), i + 1)

sortUTXOsByValue(utxos) == BubbleOuterValue(utxos, 0)

(***************************************************************************)
(* Fee estimator: base 10 + 148 per input + 34 (payment) + 34 (change).    *)
(***************************************************************************)
BaseSize == 10
InputSize == 148
OutputSize == 34

EstimatedFee(nInputs, feeRate) ==
    Wrap((BaseSize + nInputs * InputSize + OutputSize + OutputSize) * feeRate)

(***************************************************************************)
(* Manager.SelectUTXOs, after GetUTXOs has returned allUTXOs.              *)
(***************************************************************************)
FilterByInclusion(allUTXOs, txConfig) ==
    SelectSeq(allUTXOs, LAMBDA u :
        \/ u.isNative /\ txConfig.IncludeNativeUTXOs
        \/ ~u.isNative /\ txConfig.IncludeNonNativeUTXOs)

SelErr(kind, need, have) ==
    [err |-> kind, utxos |-> <<>>, fee |-> 0, need |-> need, have |-> have]

\* mutant: the funding check forgets the fee
RECURSIVE GreedyLoopIgnoringFee(_, _, _, _, _, _)
GreedyLoopIgnoringFee(sorted, k, totalValue, amount, feeRate, estimatedFee) ==
    IF k >= Len(sorted)
    THEN SelErr("insufficient_funds", Add64(amount, estimatedFee), totalValue)
    ELSE LET total == Add64(totalValue, sorted[k + 1].value)
             currentFee == EstimatedFee(k + 1, feeRate)
         IN  IF total >= amount
             THEN [err |-> "", utxos |-> SubSeq(sorted, 1, k + 1), fee |-> currentFee,
                   need |-> 0, have |-> 0]
             ELSE GreedyLoopIgnoringFee(sorted, k + 1, total, amount, feeRate, estimatedFee)

\* the greedy loop of lines 295-306: k outputs taken so far, totalValue their sum
RECURSIVE GreedyLoop(_, _, _, _, _, _)
GreedyLoop(sorted, k, totalValue, amount, feeRate, estimatedFee) ==
    IF k >= Len(sorted)
    THEN SelErr("insufficient_funds", Add64(amount, estimatedFee), totalValue)
    ELSE LET total == Add64(totalValue, sorted[k + 1].value)
             currentFee == EstimatedFee(k + 1, feeRate)
         IN  IF total >= Add64(amount, currentFee)
             THEN [err |-> "", utxos |-> SubSeq(sorted, 1, k + 1), fee |-> currentFee,
                   need |-> 0, have |-> 0]
             ELSE GreedyLoop(sorted, k + 1, total, amount, feeRate, estimatedFee)

\* mutant: a fee rate below the minimum is kept as it is
EffectiveFeeRateKeepingLow(feeRate, txConfig) == feeRate

\* lines 287-289: a fee rate below the minimum becomes the configured default
EffectiveFeeRate(feeRate, txConfig) ==
    IF feeRate < txConfig.MinFeeRate THEN txConfig.DefaultFeeRate ELSE feeRate

SelectUTXOs(allUTXOs, amount, feeRate, txConfig) ==
    IF Len(allUTXOs) = 0 THEN SelErr("no_utxos", 0, 0)
    ELSE LET availableUTXOs == FilterByInclusion(allUTXOs, txConfig)
         IN  IF Len(availableUTXOs) = 0 THEN SelErr("no_suitable_utxos", 0, 0)
             ELSE LET sortedUTXOs == sortUTXOsByValue(availableUTXOs)
                      estimatedFee == EstimatedFee(Len(sortedUTXOs), feeRate)
                      rate == EffectiveFeeRate(feeRate, txConfig)
                  IN  IF rate > txConfig.MaxFeeRate
                      THEN SelErr("fee_rate_exceeds_max", 0, 0)
                      ELSE GreedyLoop(sortedUTXOs, 0, 0, amount, rate, estimatedFee)

(***************************************************************************)
(* Manager.CalculateChange.                                                *)
(***************************************************************************)
\* mutant: change equal to the dust limit is paid out
CalculateChangeAtDust(selectedUTXOs, amount, fee, txConfig) ==
    LET change == Sub64(Sub64(SumValues(selectedUTXOs), amount), fee)
    IN  IF change >= txConfig.DustLimit
        THEN [change |-> change, hasChange |-> TRUE]
        ELSE [change |-> 0, hasChange |-> FALSE]

\* mutant: a change that is not paid out is still returned
CalculateChangeKeepingDust(selectedUTXOs, amount, fee, txConfig) ==
    LET change == Sub64(Sub64(SumValues(selectedUTXOs), amount), fee)
    IN  IF change > txConfig.DustLimit
        THEN [change |-> change, hasChange |-> TRUE]
        ELSE [change |-> change, hasChange |-> FALSE]

CalculateChange(selectedUTXOs, amount, fee, txConfig) ==
    LET change == Sub64(Sub64(SumValues(selectedUTXOs), amount), fee)
    IN  IF change > txConfig.DustLimit
        THEN [change |-> change, hasChange |-> TRUE]
        ELSE [change |-> 0, hasChange |-> FALSE]

(***************************************************************************)
(* Manager.sortUTXOsByTokenAmount and Manager.SelectUTXOsForTokenTransfer. *)
(***************************************************************************)
RECURSIVE BubbleInnerToken(_, _, _)
BubbleInnerToken(s, j, lim) ==
    IF j > lim THEN s
    ELSE BubbleInnerToken(IF s[j].tokenAmount < s[j + 1].tokenAmount THEN Swap(s, j) ELSE s,
                          j + 1, lim)

RECURSIVE BubbleOuterToken(_, _)
BubbleOuterToken(s, i) ==
    IF i >= Len(s) - 1 THEN s
    ELSE BubbleOuterToken(BubbleInnerToken(s, 1, Len(s) - i - 1), i + 1)

sortUTXOsByTokenAmount(utxos) == BubbleOuterToken(utxos, 0)

RECURSIVE SumTokenAmount(_)
SumTokenAmount(s) ==
    IF s = <<>> THEN 0
    ELSE Add64(SumTokenAmount(SubSeq(s, 1, Len(s) - 1)), s[Len(s)].tokenAmount)

\* lines 349-356: the number of token outputs taken (the loop breaks once covered)
RECURSIVE TokenPrefix(_, _, _, _)
TokenPrefix(sorted, k, got, amount) ==
    IF k >= Len(sorted) THEN k
    ELSE IF Add64(got, sorted[k + 1].tokenAmount) >= amount THEN k + 1
         ELSE TokenPrefix(sorted, k + 1, Add64(got, sorted[k + 1].tokenAmount), amount)

\* lines 369-376: the number of native outputs taken to pay the fee
RECURSIVE NativePrefix(_, _, _, _)
NativePrefix(sorted, k, got, fee) ==
    IF k >= Len(sorted) THEN k
    ELSE IF Add64(got, sorted[k + 1].value) >= fee THEN k + 1
         ELSE NativePrefix(sorted, k + 1, Add64(got, sorted[k + 1].value), fee)

\* mutant: the native outputs are checked against the fee before the token amount
SelectUTXOsForTokenTransferFeesFirst(allUTXOs, tokenID, amount, feeRate) ==
    LET nativeUTXOs == SelectSeq(allUTXOs, LAMBDA u : u.isNative)
        tokenUTXOs == SelectSeq(allUTXOs, LAMBDA u : ~u.isNative /\ u.tokenID = tokenID)
        totalTokenAmount == SumTokenAmount(tokenUTXOs)
        sortedTokenUTXOs == sortUTXOsByTokenAmount(tokenUTXOs)
        selectedTokenUTXOs ==
            SubSeq(sortedTokenUTXOs, 1, TokenPrefix(sortedTokenUTXOs, 0, 0, amount))
        estimatedFee == EstimatedFee(Len(selectedTokenUTXOs), feeRate)
        sortedNativeUTXOs == sortUTXOsByValue(nativeUTXOs)
        selectedNativeUTXOs ==
            SubSeq(sortedNativeUTXOs, 1, NativePrefix(sortedNativeUTXOs, 0, 0, estimatedFee))
        totalNativeValue == SumValues(selectedNativeUTXOs)
    IN  IF totalNativeValue < estimatedFee
        THEN SelErr("insufficient_native_for_fees", estimatedFee, totalNativeValue)
        ELSE IF totalTokenAmount < amount
             THEN SelErr("insufficient_token_balance", amount, totalTokenAmount)
             ELSE [err |-> "", utxos |-> selectedTokenUTXOs \o selectedNativeUTXOs,
                   fee |-> estimatedFee, need |-> 0, have |-> 0]

SelectUTXOsForTokenTransfer(allUTXOs, tokenID, amount, feeRate) ==
    LET nativeUTXOs == SelectSeq(allUTXOs, LAMBDA u : u.isNative)
        tokenUTXOs == SelectSeq(allUTXOs, LAMBDA u : ~u.isNative /\ u.tokenID = tokenID)
        totalTokenAmount == SumTokenAmount(tokenUTXOs)
        sortedTokenUTXOs == sortUTXOsByTokenAmount(tokenUTXOs)
        selectedTokenUTXOs ==
            SubSeq(sortedTokenUTXOs, 1, TokenPrefix(sortedTokenUTXOs, 0, 0, amount))
        estimatedFee == EstimatedFee(Len(selectedTokenUTXOs), feeRate)
        sortedNativeUTXOs == sortUTXOsByValue(nativeUTXOs)
        selectedNativeUTXOs ==
            SubSeq(sortedNativeUTXOs, 1, NativePrefix(sortedNativeUTXOs, 0, 0, estimatedFee))
        totalNativeValue == SumValues(selectedNativeUTXOs)
    IN  IF totalTokenAmount < amount
        THEN SelErr("insufficient_token_balance", amount, totalTokenAmount)
        ELSE IF totalNativeValue < estimatedFee
             THEN SelErr("insufficient_native_for_fees", estimatedFee, totalNativeValue)
             ELSE [err |-> "", utxos |-> selectedTokenUTXOs \o selectedNativeUTXOs,
                   fee |-> estimatedFee, need |-> 0, have |-> 0]

(***************************************************************************)
(* Builder.validateParams: the error, and the fee rate it leaves in params.*)
(***************************************************************************)
RECURSIVE ValidateTransfers(_, _)
ValidateTransfers(transfers, i) ==
    IF i > Len(transfers) THEN ""
    ELSE IF transfers[i].TokenID = "" THEN "token ID is required"
         ELSE IF transfers[i].To = "" THEN "token recipient address is required"
              ELSE IF transfers[i].Amount <= 0 THEN "token amount must be positive"
                   ELSE ValidateTransfers(transfers, i + 1)

\* mutant: the amount is not checked
validateParamsWithoutAmount(params, txConfig) ==
    IF params.From = "" THEN "sender address is required"
    ELSE IF params.To = "" THEN "recipient address is required"
    ELSE IF params.PrivateKey = "" THEN "private key is required"
    ELSE IF params.FeeRate > 0 /\ params.FeeRate < txConfig.MinFeeRate
         THEN "fee rate is below minimum"
    ELSE IF params.FeeRate > 0 /\ params.FeeRate > txConfig.MaxFeeRate
         THEN "fee rate exceeds maximum"
    ELSE ValidateTransfers(params.TokenTransfers, 1)

\* mutant: a fee rate of zero or less is rejected instead of defaulted
validateParamsRejectingZero(params, txConfig) ==
    IF params.From = "" THEN "sender address is required"
    ELSE IF params.To = "" THEN "recipient address is required"
    ELSE IF params.Amount <= 0 THEN "amount must be positive"
    ELSE IF params.PrivateKey = "" THEN "private key is required"
    ELSE IF params.FeeRate < txConfig.MinFeeRate THEN "fee rate is below minimum"
    ELSE IF params.FeeRate > txConfig.MaxFeeRate THEN "fee rate exceeds maximum"
    ELSE ValidateTransfers(params.TokenTransfers, 1)

validateParams(params, txConfig) ==
    IF params.From = "" THEN "sender address is required"
    ELSE IF params.To = "" THEN "recipient address is required"
    ELSE IF params.Amount <= 0 THEN "amount must be positive"
    ELSE IF params.PrivateKey = "" THEN "private key is required"
    ELSE IF params.FeeRate > 0 /\ params.FeeRate < txConfig.MinFeeRate
         THEN "fee rate is below minimum"
    ELSE IF params.FeeRate > 0 /\ params.FeeRate > txConfig.MaxFeeRate
         THEN "fee rate exceeds maximum"
    ELSE ValidateTransfers(params.TokenTransfers, 1)

\* lines 188-189 (and 75-77): a fee rate <= 0 becomes the configured default
DefaultedFeeRate(feeRate, txConfig) ==
    IF feeRate <= 0 THEN txConfig.DefaultFeeRate ELSE feeRate

ValidationErrors ==
    {"sender address is required", "recipient address is required",
     "amount must be positive", "private key is required", "fee rate is below minimum",
     "fee rate exceeds maximum", "token ID is required",
     "token recipient address is required", "token amount must be positive"}

(***************************************************************************)
(* Builder.addOutputs: the outputs of the transaction, or an error.        *)
(***************************************************************************)
\* btcutil.DecodeAddress and hex.DecodeString succeed on well-formed text
ValidAddresses == {"a1", "a2", "r1"}

\* mutant: the marker outputs are appended in the reverse order of the transfers
RECURSIVE TokenOutputsReversed(_)
TokenOutputsReversed(transfers) ==
    IF transfers = <<>> THEN <<>>
    ELSE TokenOutputsReversed(Tail(transfers))
         \o <<[value |-> 0, kind |-> "token", to |-> "",
               data |-> <<"TOKEN_TRANSFER", transfers[1].TokenID, transfers[1].To,
                          transfers[1].Amount>>]>>

\* lines 301-319: one OP_RETURN output of value 0 per token transfer, carrying
\* "TOKEN_TRANSFER:<id>:<to>:<amount>"
RECURSIVE TokenOutputs(_)
TokenOutputs(transfers) ==
    IF transfers = <<>> THEN <<>>
    ELSE <<[value |-> 0, kind |-> "token", to |-> "",
            data |-> <<"TOKEN_TRANSFER", transfers[1].TokenID, transfers[1].To,
                       transfers[1].Amount>>]>>
         \o TokenOutputs(Tail(transfers))

\* lines 323-338: the data outputs appended before the first undecodable payload
RECURSIVE DataOutputsOf(_)
DataOutputsOf(datas) ==
    IF datas = <<>> THEN <<>>
    ELSE IF datas[1].Data \notin {"beef", "cafe"} THEN <<>>
         ELSE <<[value |-> 0, kind |-> "data", to |-> "", data |-> <<datas[1].Data>>]>>
              \o DataOutputsOf(Tail(datas))

addOutputs(params, selectedUTXOs, fee, txConfig) ==
    LET payment == <<[value |-> params.Amount, kind |-> "payment", to |-> params.To,
                      data |-> <<>>]>>
        markers == TokenOutputs(params.TokenTransfers)
        datas == DataOutputsOf(params.DataOutputs)
        c == CalculateChange(selectedUTXOs, params.Amount, fee, txConfig)
        sofar == payment \o markers \o datas
    IN  IF params.To \notin ValidAddresses
        THEN [err |-> "invalid recipient address", outs |-> <<>>]
        ELSE IF Len(datas) < Len(params.DataOutputs)
             THEN [err |-> "invalid data output hex", outs |-> sofar]
             ELSE IF ~c.hasChange
                  THEN [err |-> "", outs |-> sofar]
                  ELSE IF params.From \notin ValidAddresses
                       THEN [err |-> "invalid sender address", outs |-> sofar]
                       ELSE [err |-> "",
                             outs |-> Append(sofar, [value |-> c.change, kind |-> "change",
                                                     data |-> <<>>,
                                                     to |-> params.From])]

\* Builder.selectUTXOsForTokenTransfer and lines 67-82 of BuildTransaction
SelectForParams(params, allUTXOs, txConfig) ==
    IF Len(params.TokenTransfers) > 0
    THEN SelectUTXOsForTokenTransfer(allUTXOs, params.TokenTransfers[1].TokenID,
                                     params.TokenTransfers[1].Amount, params.FeeRate)
    ELSE SelectUTXOs(allUTXOs, params.Amount,
                     DefaultedFeeRate(params.FeeRate, txConfig), txConfig)

(***************************************************************************)
(* The world of the stepwise model: callers, addresses and the ledger the  *)
(* remote indexing service reports.                                        *)
(***************************************************************************)
Procs == {"p1", "p2"}
Addrs == {"a1", "a2"}

\* every output the remote service can ever report: owner, value, confirmations
Ledger ==
    <<[owner |-> "a1", value |-> 1000, conf |-> 2],
      [owner |-> "a1", value |-> 526, conf |-> 1],
      [owner |-> "a1", value |-> 300, conf |-> 0],
      [owner |-> "a2", value |-> 700, conf |-> 1],
      [owner |-> "a1", value |-> 700, conf |-> 2]>>


\* latest instant of the model clock
MaxTime == 3
\* the last instant of the clock in the two-caller specification
MaxTimeConc == 2
\* largest retry budget (Manager.maxRetries) and delay (Manager.retryDelay) tried
MaxRetriesTried == 3
MaxDelayTried == 1

NoObj == 0
ObjIds == 1 .. (Cardinality(Addrs) + Cardinality(Procs))
\* a nil pointer, an absent record
None == [none |-> TRUE]
Free == [free |-> TRUE]
NoErr == ""
FailKinds == {"transport", "status", "read", "decode"}

VARIABLES
    now,          \* wall clock (time.Now)
    chain,        \* ids of the outputs currently unspent at the remote service
    config,       \* config.Manager.config: [utxo |-> ..., tx |-> ..., net |-> ...]
    maxRetries,   \* Manager.maxRetries
    retryDelay,   \* Manager.retryDelay
    cache,        \* Manager.cache: address -> entry object (NoObj when absent)
    heap,         \* the CacheEntry objects the map and the callers point to
    proc,         \* per caller: program counter and locals of the running call
    sel,          \* input and result of the pure selection specification
    hist          \* history: per address, the first fetch completed in the current window

vars == <<now, chain, config, maxRetries, retryDelay, cache, heap, proc, sel, hist>>

(***************************************************************************)
(* Configuration (config.Manager).                                         *)
(***************************************************************************)
getDefaultUTXOConfig ==
    [IncludeNative |-> TRUE, IncludeNonNative |-> TRUE,
     MinConfirmations |-> 1, MaxUTXOsPerQuery |-> 100,
     EnableCaching |-> TRUE, CacheExpiry |-> 300]

getDefaultTransactionConfig ==
    [DefaultFeeRate |-> 5, MinFeeRate |-> 1, MaxFeeRate |-> 1000, DustLimit |-> 546,
     MaxTransactionSize |-> 100000, EnableRBF |-> FALSE,
     IncludeNativeUTXOs |-> TRUE, IncludeNonNativeUTXOs |-> FALSE]

getMainnetConfig ==
    [Name |-> "BSV Mainnet", RPCURL |-> "https://api.whatsonchain.com/v1/bsv/main",
     ExplorerURL |-> "https://whatsonchain.com", IsTestnet |-> FALSE,
     ChainID |-> "mainnet", CoinType |-> 236]

getTestnetConfig ==
    [Name |-> "BSV Testnet", RPCURL |-> "https://api.whatsonchain.com/v1/bsv/test",
     ExplorerURL |-> "https://test.whatsonchain.com", IsTestnet |-> TRUE,
     ChainID |-> "testnet", CoinType |-> 1]

getDefaultConfig ==
    [utxo |-> getDefaultUTXOConfig, tx |-> getDefaultTransactionConfig,
     net |-> getTestnetConfig]

(***************************************************************************)
(* The remote indexing service.                                            *)
(***************************************************************************)
\* GET /address/{a}/unspent: the unspent outputs of a, in ledger order
RECURSIVE UnspentFrom(_, _, _)
UnspentFrom(unspent, a, i) ==
    IF i > Len(Ledger) THEN <<>>
    ELSE IF i \in unspent /\ Ledger[i].owner = a
         THEN <<[txid |-> i, value |-> Ledger[i].value, address |-> a,
                 confirmations |-> Ledger[i].conf]>> \o UnspentFrom(unspent, a, i + 1)
         ELSE UnspentFrom(unspent, a, i + 1)

UnspentResponse(unspent, a) == UnspentFrom(unspent, a, 1)

RECURSIVE SumWhere(_, _)
SumWhere(resp, confirmed) ==
    IF resp = <<>> THEN 0
    ELSE (IF (resp[1].confirmations >= 1) = confirmed THEN resp[1].value ELSE 0)
         + SumWhere(Tail(resp), confirmed)

\* GET /address/{a}/balance
BalanceResponse(unspent, a) ==
    [confirmed |-> SumWhere(UnspentResponse(unspent, a), TRUE),
     unconfirmed |-> SumWhere(UnspentResponse(unspent, a), FALSE)]

(***************************************************************************)
(* Manager.GetUTXOs, lines 80-107: conversion of the response.             *)
(***************************************************************************)
\* mutant: the outputs are tagged as outputs of token T
ToUTXOAsToken(resp) ==
    [txid |-> resp.txid, value |-> resp.value, address |-> resp.address,
     confirmations |-> resp.confirmations,
     isNative |-> FALSE, tokenID |-> "T", tokenAmount |-> 5]

ToUTXO(resp) ==
    [txid |-> resp.txid, value |-> resp.value, address |-> resp.address,
     confirmations |-> resp.confirmations,
     isNative |-> TRUE, tokenID |-> "", tokenAmount |-> 0]

\* mutant: the cap on the number of outputs is not applied
RECURSIVE ConvertResponsesUncapped(_, _, _)
ConvertResponsesUncapped(resps, utxos, utxoConfig) ==
    IF resps = <<>> THEN utxos
    ELSE IF resps[1].confirmations < utxoConfig.MinConfirmations
         THEN ConvertResponsesUncapped(Tail(resps), utxos, utxoConfig)
         ELSE ConvertResponsesUncapped(Tail(resps), Append(utxos, ToUTXO(resps[1])),
                                       utxoConfig)

RECURSIVE ConvertResponses(_, _, _)
ConvertResponses(resps, utxos, utxoConfig) ==
    IF resps = <<>> THEN utxos
    ELSE IF resps[1].confirmations < utxoConfig.MinConfirmations
         THEN ConvertResponses(Tail(resps), utxos, utxoConfig)
         ELSE IF Len(utxos) >= utxoConfig.MaxUTXOsPerQuery
              THEN utxos
              ELSE ConvertResponses(Tail(resps), Append(utxos, ToUTXO(resps[1])), utxoConfig)

(***************************************************************************)
(* The cache (Manager.getFromCache, Manager.setCache, ClearCache...).      *)
(***************************************************************************)
\* mutant: an entry never expires
ExpiredNever(entry, utxoConfig, t) == FALSE

\* the expiry test of getFromCache, line 440
Expired(entry, utxoConfig, t) == t - entry.ts > utxoConfig.CacheExpiry

\* mutant: the caching switch is not consulted
getFromCacheIgnoringSwitch(address, utxoConfig, cacheMap, objs, t) ==
    IF cacheMap[address] = NoObj THEN NoObj
    ELSE IF Expired(objs[cacheMap[address]], utxoConfig, t) THEN NoObj
         ELSE cacheMap[address]

\* Manager.getFromCache: the entry object, or NoObj
getFromCache(address, utxoConfig, cacheMap, objs, t) ==
    IF ~utxoConfig.EnableCaching THEN NoObj
    ELSE IF cacheMap[address] = NoObj THEN NoObj
         ELSE IF Expired(objs[cacheMap[address]], utxoConfig, t) THEN NoObj
              ELSE cacheMap[address]

\* objects still referenced by the map or by a caller
Referenced(cacheMap, procs) ==
    {cacheMap[a] : a \in Addrs} \cup {procs[p].ptr : p \in Procs}

FreshObj(cacheMap, procs) ==
    CHOOSE o \in ObjIds : o \notin Referenced(cacheMap, procs)
                          /\ \A o2 \in ObjIds : o2 < o => o2 \in Referenced(cacheMap, procs)

\* Manager.setCache: the map after the call (a new object is stored)
setCache(address, obj, utxoConfig, cacheMap) ==
    IF ~utxoConfig.EnableCaching THEN cacheMap
    ELSE [cacheMap EXCEPT ![address] = obj]

(***************************************************************************)
(* Callers.  A caller runs one top-level call at a time; proc[p] holds its *)
(* program counter, the locals of the frames on its stack and, once the    *)
(* call has returned (pc = "done"), the returned values.  nreq, slept,     *)
(* outcomes, gaps (the time between consecutive attempts), wrote and       *)
(* trace record what the call did; stale records that the call found an    *)
(* entry whose lifetime had elapsed, tissue when it found that, cfg0 the   *)
(* configuration the call read first (at its cache lookup), inval that the *)
(* cache was invalidated for the call's address after the call had         *)
(* received its response and before it stored it.                          *)
(***************************************************************************)

IdleProc ==
    [pc |-> "idle", op |-> "", addr |-> "", cont |-> "", ptr |-> NoObj,
     gcfg |-> None, bcfg |-> None,
     reqKind |-> "", attempt |-> 0, lastErr |-> NoErr, wake |-> 0,
     resp |-> <<>>, balResp |-> None,
     utxos |-> <<>>, gerr |-> NoErr, err |-> NoErr, bal |-> None,
     ghit |-> FALSE, bhit |-> FALSE,
     nreq |-> 0, slept |-> <<>>, outcomes |-> <<>>, gaps |-> <<>>, wrote |-> FALSE,
     params |-> None, feeRate |-> 0, scfg |-> None, selected |-> <<>>, fee |-> 0,
     tx |-> <<>>, trace |-> <<>>, failedAt |-> "", nbcast |-> 0, diag |-> "",
     result |-> None, tlast |-> 0, stale |-> FALSE, tissue |-> 0, cfg0 |-> None,
     inval |-> FALSE]

CanStart(p) == proc[p].pc \in {"idle", "done"}

\* history: the lifetime counted from ts has elapsed at time t
TTLElapsed(ts, utxoConfig, t) == t - ts > utxoConfig.CacheExpiry

\* history: address has an entry whose lifetime has elapsed at time t
StaleAt(address, t) ==
    cache[address] # NoObj /\ TTLElapsed(heap[cache[address]].ts, config.utxo, t)

\* history: the first fetch of address whose window still covers time t
FirstAt(address, t) ==
    IF hist[address] # None /\ ~TTLElapsed(hist[address].ts, config.utxo, t)
    THEN hist[address]
    ELSE None

\* history: what a top-level call saw when it looked the cache up
Looked(r, topOp) ==
    IF r.op = topOp
    THEN [r EXCEPT !.stale = StaleAt(r.addr, now),
                   !.tissue = IF StaleAt(r.addr, now) THEN now ELSE 0,
                   !.cfg0 = config.utxo]
    ELSE r

\* the caller's record when its top-level call returns: results and records only
Finished(r) ==
    [IdleProc EXCEPT !.pc = "done", !.op = r.op, !.addr = r.addr,
                     !.utxos = r.utxos, !.err = r.err, !.bal = r.bal,
                     !.ghit = r.ghit, !.bhit = r.bhit, !.nreq = r.nreq,
                     !.slept = r.slept, !.outcomes = r.outcomes, !.gaps = r.gaps,
                     !.wrote = r.wrote, !.params = r.params, !.selected = r.selected,
                     !.fee = r.fee, !.tx = r.tx, !.trace = r.trace,
                     !.failedAt = r.failedAt, !.nbcast = r.nbcast, !.diag = r.diag,
                     !.result = r.result, !.stale = r.stale, !.inval = r.inval]

\* the call commits; unreferenced objects are reclaimed (Go's garbage collector)
Commit(newCache, newHeap, newProc) ==
    /\ cache' = newCache
    /\ proc' = newProc
    /\ heap' = [o \in ObjIds |-> IF o \in Referenced(newCache, newProc) THEN newHeap[o]
                                  ELSE Free]

Set(p, r) == Commit(cache, heap, [proc EXCEPT ![p] = r])

\* GetUTXOs returns (utxos, err) to the frame that called it
GetUTXOsReturns(r, utxos, err) ==
    LET back == [r EXCEPT !.utxos = utxos, !.gerr = err, !.pc = r.cont, !.cont = "",
                          !.gcfg = None, !.resp = <<>>, !.reqKind = "",
                          !.attempt = 0, !.lastErr = NoErr, !.wake = 0, !.tlast = 0]
    IN  IF r.cont = "done" THEN Finished([back EXCEPT !.err = err]) ELSE back

(***************************************************************************)
(* Manager.GetUTXOs.                                                       *)
(***************************************************************************)
StartGetUTXOs(p, a) ==
    /\ CanStart(p)
    /\ Set(p, [IdleProc EXCEPT !.op = "GetUTXOs", !.addr = a, !.pc = "G_cache",
                               !.cont = "done"])
    /\ UNCHANGED <<now, chain, config, maxRetries, retryDelay, sel, hist>>

\* lines 64-67: the cache check
GetUTXOsCacheCheck(p) ==
    LET r == Looked(proc[p], "GetUTXOs")
        e == getFromCache(r.addr, config.utxo, cache, heap, now)
    IN  /\ r.pc = "G_cache"
        /\ IF e # NoObj
           THEN Set(p, GetUTXOsReturns([r EXCEPT !.ghit = TRUE], heap[e].utxos, NoErr))
           ELSE Set(p, [r EXCEPT !.ghit = FALSE, !.pc = "G_cfg"])
        /\ UNCHANGED <<now, chain, config, maxRetries, retryDelay, sel, hist>>

\* lines 69-75: the configuration snapshot and the call of makeRequest
GetUTXOsReadConfig(p) ==
    LET r == proc[p]
    IN  /\ r.pc = "G_cfg"
        /\ Set(p, [r EXCEPT !.gcfg = config.utxo, !.pc = "REQ", !.reqKind = "unspent",
                            !.attempt = 1, !.lastErr = NoErr, !.wake = 0, !.tlast = 0,
                            !.slept = <<>>, !.outcomes = <<>>, !.gaps = <<>>])
        /\ UNCHANGED <<now, chain, config, maxRetries, retryDelay, sel, hist>>

(***************************************************************************)
(* Manager.makeRequest: one step per attempt.                              *)
(***************************************************************************)
\* makeRequest returned an error to GetUTXOs (line 77) or GetEnhancedBalance (line 135)
RequestFailed(r, lastErr) ==
    IF r.reqKind = "unspent"
    THEN GetUTXOsReturns(r, <<>>, lastErr)
    ELSE Finished([r EXCEPT !.err = lastErr])

\* makeRequest returned nil with the decoded payload
RequestSucceeded(r, unspent, balance) ==
    LET cleared == [r EXCEPT !.attempt = 0, !.lastErr = NoErr, !.wake = 0, !.tlast = 0,
                             !.reqKind = ""]
    IN  IF r.reqKind = "unspent"
        THEN [cleared EXCEPT !.resp = unspent, !.pc = "G_set"]
        ELSE [cleared EXCEPT !.balResp = balance, !.pc = "G_cache", !.cont = "B_calc"]

\* the loop condition attempt <= maxRetries is false: return lastErr (line 536)
RequestLoopExit(p) ==
    LET r == proc[p]
    IN  /\ r.pc = "REQ"
        /\ r.attempt > maxRetries
        /\ IF r.lastErr = NoErr
           THEN Set(p, RequestSucceeded(r, <<>>, [confirmed |-> 0, unconfirmed |-> 0]))
           ELSE Set(p, RequestFailed(r, r.lastErr))
        /\ UNCHANGED <<now, chain, config, maxRetries, retryDelay, sel, hist>>

\* an attempt that gets a 200 response whose body is read and decoded
RequestOk(p) ==
    LET r == [proc[p] EXCEPT !.nreq = @ + 1, !.outcomes = Append(@, "ok"),
                              !.tlast = now,
                              !.gaps = IF proc[p].attempt > 1
                                       THEN Append(@, now - proc[p].tlast) ELSE @]
    IN  /\ r.pc = "REQ"
        /\ r.attempt <= maxRetries
        /\ now >= r.wake
        /\ Set(p, RequestSucceeded(r, UnspentResponse(chain.unspent, r.addr),
                                      BalanceResponse(chain.unspent, r.addr)))
        /\ UNCHANGED <<now, chain, config, maxRetries, retryDelay, sel, hist>>

\* mutant: a constant delay instead of a linearly growing one
BackoffDelayConstant(delay, attempt) == delay

\* the delay before the attempt that follows failed attempt number attempt
BackoffDelay(delay, attempt) == delay * attempt

\* an attempt that fails: transport, non-200 status, body read or decode
RequestFail(p, kind) ==
    LET r == [proc[p] EXCEPT !.nreq = @ + 1, !.outcomes = Append(@, kind),
                              !.tlast = now,
                              !.gaps = IF proc[p].attempt > 1
                                       THEN Append(@, now - proc[p].tlast) ELSE @,
                              !.lastErr = kind]
        d == BackoffDelay(retryDelay, r.attempt)
    IN  /\ r.pc = "REQ"
        /\ r.attempt <= maxRetries
        /\ now >= r.wake
        /\ IF r.attempt < maxRetries
           THEN Set(p, [r EXCEPT !.slept = Append(@, d), !.wake = now + d,
                                 !.attempt = @ + 1])
           ELSE Set(p, RequestFailed(r, kind))
        /\ UNCHANGED <<now, chain, config, maxRetries, retryDelay, sel, hist>>

\* lines 80-117: convert the response, store it when caching is enabled, return
NewEntry(utxos, balance, t) == [utxos |-> utxos, balance |-> balance, ts |-> t]

GetUTXOsStore(p) ==
    LET r == proc[p]
        utxos == ConvertResponses(r.resp, <<>>, r.gcfg)
        obj == FreshObj(cache, proc)
        stores == r.gcfg.EnableCaching /\ config.utxo.EnableCaching
        back == GetUTXOsReturns([r EXCEPT !.wrote = @ \/ stores], utxos, NoErr)
    IN  /\ r.pc = "G_set"
        /\ IF r.gcfg.EnableCaching
           THEN Commit(setCache(r.addr, obj, config.utxo, cache),
                       [heap EXCEPT ![obj] = NewEntry(utxos, None, now)],
                       [proc EXCEPT ![p] = back])
           ELSE Set(p, back)
        /\ hist' = IF stores /\ FirstAt(r.addr, now) = None
                   THEN [hist EXCEPT ![r.addr] = [utxos |-> utxos, ts |-> now]]
                   ELSE hist
        /\ UNCHANGED <<now, chain, config, maxRetries, retryDelay, sel>>

(***************************************************************************)
(* Manager.GetEnhancedBalance.                                             *)
(***************************************************************************)
\* mutant: the total of a token counts its confirmed outputs only
TokenBalanceConfirmedOnly(tokenUTXOs, tokenID, utxoConfig) ==
    LET mine == SelectSeq(tokenUTXOs, LAMBDA u : u.tokenID = tokenID)
        conf == SelectSeq(mine, LAMBDA u : u.confirmations >= utxoConfig.MinConfirmations)
        unconf == SelectSeq(mine, LAMBDA u : u.confirmations < utxoConfig.MinConfirmations)
    IN  [TokenID |-> tokenID, Confirmed |-> SumTokenAmount(conf),
         Unconfirmed |-> SumTokenAmount(unconf), Total |-> SumTokenAmount(conf),
         UTXOCount |-> Len(mine)]

\* lines 170-193: the per-token aggregates
TokenBalance(tokenUTXOs, tokenID, utxoConfig) ==
    LET mine == SelectSeq(tokenUTXOs, LAMBDA u : u.tokenID = tokenID)
        conf == SelectSeq(mine, LAMBDA u : u.confirmations >= utxoConfig.MinConfirmations)
        unconf == SelectSeq(mine, LAMBDA u : u.confirmations < utxoConfig.MinConfirmations)
    IN  [TokenID |-> tokenID, Confirmed |-> SumTokenAmount(conf),
         Unconfirmed |-> SumTokenAmount(unconf), Total |-> SumTokenAmount(mine),
         UTXOCount |-> Len(mine)]

\* lines 144-199: the balance snapshot built from the balance response and the outputs
EnhancedBalance(balanceResp, utxos, utxoConfig) ==
    LET nativeUTXOs == SelectSeq(utxos, LAMBDA u : u.isNative)
        nonNativeUTXOs == SelectSeq(utxos, LAMBDA u : ~u.isNative)
        ids == {nonNativeUTXOs[i].tokenID : i \in DOMAIN nonNativeUTXOs} \ {""}
        total == Add64(balanceResp.confirmed, balanceResp.unconfirmed)
    IN  [Native |-> [Confirmed |-> balanceResp.confirmed,
                     Unconfirmed |-> balanceResp.unconfirmed,
                     Total |-> total, UTXOCount |-> Len(nativeUTXOs)],
         NonNative |-> [Tokens |-> [t \in ids |-> TokenBalance(nonNativeUTXOs, t, utxoConfig)],
                        UTXOCount |-> Len(nonNativeUTXOs)],
         Total |-> total]

StartGetEnhancedBalance(p, a) ==
    /\ CanStart(p)
    /\ Set(p, [IdleProc EXCEPT !.op = "GetEnhancedBalance", !.addr = a, !.pc = "B_cache"])
    /\ UNCHANGED <<now, chain, config, maxRetries, retryDelay, sel, hist>>

\* line 123, first half: getFromCache returns a pointer to the entry
BalanceCacheCheck(p) ==
    LET r == Looked(proc[p], "GetEnhancedBalance")
        e == getFromCache(r.addr, config.utxo, cache, heap, now)
    IN  /\ r.pc = "B_cache"
        /\ IF e # NoObj
           THEN Set(p, [r EXCEPT !.ptr = e, !.pc = "B_read"])
           ELSE Set(p, [r EXCEPT !.pc = "B_cfg"])
        /\ UNCHANGED <<now, chain, config, maxRetries, retryDelay, sel, hist>>

\* lines 123-125: cached.Balance is read through the pointer, outside the lock
BalanceReadCached(p) ==
    LET r == proc[p]
        b == heap[r.ptr].balance
    IN  /\ r.pc = "B_read"
        /\ IF b # None
           THEN Set(p, Finished([r EXCEPT !.bal = b, !.bhit = TRUE]))
           ELSE Set(p, [r EXCEPT !.ptr = NoObj, !.pc = "B_cfg"])
        /\ UNCHANGED <<now, chain, config, maxRetries, retryDelay, sel, hist>>

\* lines 127-133: the configuration snapshot and the balance request
BalanceReadConfig(p) ==
    LET r == proc[p]
    IN  /\ r.pc = "B_cfg"
        /\ Set(p, [r EXCEPT !.bcfg = config.utxo, !.pc = "REQ", !.reqKind = "balance",
                            !.attempt = 1, !.lastErr = NoErr, !.wake = 0, !.tlast = 0,
                            !.slept = <<>>, !.outcomes = <<>>, !.gaps = <<>>])
        /\ UNCHANGED <<now, chain, config, maxRetries, retryDelay, sel, hist>>

\* mutant: the snapshot is built and cached although GetUTXOs returned an error
BalanceComputeStoringOnError(p) ==
    LET r == proc[p]
        b == EnhancedBalance(r.balResp, r.utxos, r.bcfg)
        e == getFromCache(r.addr, config.utxo, cache, heap, now)
        got == [r EXCEPT !.bal = b, !.err = r.gerr]
    IN  /\ r.pc = "B_calc"
        /\ IF ~r.bcfg.EnableCaching
           THEN Set(p, Finished(got))
           ELSE IF e # NoObj
                THEN Set(p, [got EXCEPT !.ptr = e, !.pc = "B_write"])
                ELSE Set(p, [got EXCEPT !.pc = "B_set"])
        /\ UNCHANGED <<now, chain, config, maxRetries, retryDelay, sel, hist>>

\* lines 139-203: GetUTXOs has returned; build the snapshot and look the entry up again
BalanceCompute(p) ==
    LET r == proc[p]
        b == EnhancedBalance(r.balResp, r.utxos, r.bcfg)
        e == getFromCache(r.addr, config.utxo, cache, heap, now)
        got == [r EXCEPT !.bal = b]
    IN  /\ r.pc = "B_calc"
        /\ IF r.gerr # NoErr
           THEN Set(p, Finished([r EXCEPT !.err = r.gerr]))
           ELSE IF ~r.bcfg.EnableCaching
                THEN Set(p, Finished(got))
                ELSE IF e # NoObj
                     THEN Set(p, [got EXCEPT !.ptr = e, !.pc = "B_write"])
                     ELSE Set(p, [got EXCEPT !.pc = "B_set"])
        /\ UNCHANGED <<now, chain, config, maxRetries, retryDelay, sel, hist>>

\* line 204: cached.Balance = enhancedBalance, written through the pointer
BalanceWriteCached(p) ==
    LET r == proc[p]
    IN  /\ r.pc = "B_write"
        /\ Commit(cache, [heap EXCEPT ![r.ptr].balance = r.bal],
                  [proc EXCEPT ![p] = Finished([r EXCEPT !.wrote = TRUE])])
        /\ UNCHANGED <<now, chain, config, maxRetries, retryDelay, sel, hist>>

\* lines 206-209: no entry was found, a new one holding only the balance is stored
BalanceStore(p) ==
    LET r == proc[p]
        obj == FreshObj(cache, proc)
    IN  /\ r.pc = "B_set"
        /\ Commit(setCache(r.addr, obj, config.utxo, cache),
                  [heap EXCEPT ![obj] = NewEntry(<<>>, r.bal, now)],
                  [proc EXCEPT ![p] = Finished([r EXCEPT !.wrote = config.utxo.EnableCaching])])
        /\ UNCHANGED <<now, chain, config, maxRetries, retryDelay, sel, hist>>

(***************************************************************************)
(* Manager.ClearCache and Manager.ClearCacheForAddress.                    *)
(***************************************************************************)
\* the caller's record of an invalidation it has made
Cleared(op, a) == [IdleProc EXCEPT !.pc = "done", !.op = op, !.addr = a]

\* history: caller p has invalidated addrs; the calls that hold a response for one
\* of them and have not stored it yet are marked
Invalidated(p, op, a, addrs) ==
    [q \in Procs |->
        IF q = p THEN Cleared(op, a)
        ELSE IF proc[q].pc = "G_set" /\ proc[q].addr \in addrs
             THEN [proc[q] EXCEPT !.inval = TRUE]
             ELSE proc[q]]

ClearCache(p) ==
    /\ CanStart(p)
    /\ Commit([a \in Addrs |-> NoObj], heap, Invalidated(p, "ClearCache", "", Addrs))
    /\ hist' = [a \in Addrs |-> None]
    /\ UNCHANGED <<now, chain, config, maxRetries, retryDelay, sel>>

\* mutant: the entries of all addresses are removed
ClearCacheForAddressAll(p, a) ==
    /\ CanStart(p)
    /\ Commit([b \in Addrs |-> NoObj], heap,
              Invalidated(p, "ClearCacheForAddress", a, Addrs))
    /\ hist' = [b \in Addrs |-> None]
    /\ UNCHANGED <<now, chain, config, maxRetries, retryDelay, sel>>

ClearCacheForAddress(p, a) ==
    /\ CanStart(p)
    /\ Commit([cache EXCEPT ![a] = NoObj], heap,
              Invalidated(p, "ClearCacheForAddress", a, {a}))
    /\ hist' = [hist EXCEPT ![a] = None]
    /\ UNCHANGED <<now, chain, config, maxRetries, retryDelay, sel>>

(***************************************************************************)
(* config.Manager: validation, deep copies, updates and getters.  Every    *)
(* method runs under the manager's mutex from its first statement to its   *)
(* return, so each one is a single step.  The caller's record keeps the    *)
(* argument (params), the returned error (err) and the returned value      *)
(* (result).                                                               *)
(***************************************************************************)
\* a nil pointer argument
Nil == [nil |-> TRUE]

validateNetworkConfig(network) ==
    IF network = Nil THEN "network configuration cannot be nil"
    ELSE IF network.Name = "" THEN "network name is required"
    ELSE IF network.RPCURL = "" THEN "RPC URL is required"
    ELSE IF network.ExplorerURL = "" THEN "explorer URL is required"
    ELSE IF network.ChainID = "" THEN "chain ID is required"
    ELSE NoErr

validateUTXOConfig(utxo) ==
    IF utxo = Nil THEN "UTXO configuration cannot be nil"
    ELSE IF utxo.MinConfirmations < 0 THEN "minimum confirmations cannot be negative"
    ELSE IF utxo.MaxUTXOsPerQuery <= 0 THEN "maximum UTXOs per query must be positive"
    ELSE IF utxo.CacheExpiry < 0 THEN "cache expiry cannot be negative"
    ELSE NoErr

\* mutant: the order of the minimum and maximum fee rates is not checked
validateTransactionConfigWithoutOrder(tx) ==
    IF tx = Nil THEN "transaction configuration cannot be nil"
    ELSE IF tx.DefaultFeeRate <= 0 THEN "default fee rate must be positive"
    ELSE IF tx.MinFeeRate <= 0 THEN "minimum fee rate must be positive"
    ELSE IF tx.MaxFeeRate <= 0 THEN "maximum fee rate must be positive"
    ELSE IF tx.DustLimit < 0 THEN "dust limit cannot be negative"
    ELSE IF tx.MaxTransactionSize <= 0 THEN "maximum transaction size must be positive"
    ELSE NoErr

validateTransactionConfig(tx) ==
    IF tx = Nil THEN "transaction configuration cannot be nil"
    ELSE IF tx.DefaultFeeRate <= 0 THEN "default fee rate must be positive"
    ELSE IF tx.MinFeeRate <= 0 THEN "minimum fee rate must be positive"
    ELSE IF tx.MaxFeeRate <= 0 THEN "maximum fee rate must be positive"
    ELSE IF tx.MinFeeRate > tx.MaxFeeRate
         THEN "minimum fee rate cannot be greater than maximum fee rate"
    ELSE IF tx.DustLimit < 0 THEN "dust limit cannot be negative"
    ELSE IF tx.MaxTransactionSize <= 0 THEN "maximum transaction size must be positive"
    ELSE NoErr

validateConfig(c) ==
    IF c = Nil THEN "configuration cannot be nil"
    ELSE IF validateNetworkConfig(c.Network) # NoErr THEN validateNetworkConfig(c.Network)
    ELSE IF validateUTXOConfig(c.UTXO) # NoErr THEN validateUTXOConfig(c.UTXO)
    ELSE validateTransactionConfig(c.Transaction)

deepCopyNetworkConfig(network) ==
    IF network = Nil THEN Nil
    ELSE [Name |-> network.Name, RPCURL |-> network.RPCURL,
          ExplorerURL |-> network.ExplorerURL, IsTestnet |-> network.IsTestnet,
          ChainID |-> network.ChainID, CoinType |-> network.CoinType]

\* mutant: the copy takes MaxUTXOsPerQuery from the stored configuration
deepCopyUTXOConfigMixing(utxo) ==
    IF utxo = Nil THEN Nil
    ELSE [IncludeNative |-> utxo.IncludeNative, IncludeNonNative |-> utxo.IncludeNonNative,
          MinConfirmations |-> utxo.MinConfirmations,
          MaxUTXOsPerQuery |-> config.utxo.MaxUTXOsPerQuery,
          EnableCaching |-> utxo.EnableCaching, CacheExpiry |-> utxo.CacheExpiry]

deepCopyUTXOConfig(utxo) ==
    IF utxo = Nil THEN Nil
    ELSE [IncludeNative |-> utxo.IncludeNative, IncludeNonNative |-> utxo.IncludeNonNative,
          MinConfirmations |-> utxo.MinConfirmations,
          MaxUTXOsPerQuery |-> utxo.MaxUTXOsPerQuery,
          EnableCaching |-> utxo.EnableCaching, CacheExpiry |-> utxo.CacheExpiry]

deepCopyTransactionConfig(tx) ==
    IF tx = Nil THEN Nil
    ELSE [DefaultFeeRate |-> tx.DefaultFeeRate, MinFeeRate |-> tx.MinFeeRate,
          MaxFeeRate |-> tx.MaxFeeRate, DustLimit |-> tx.DustLimit,
          MaxTransactionSize |-> tx.MaxTransactionSize, EnableRBF |-> tx.EnableRBF,
          IncludeNativeUTXOs |-> tx.IncludeNativeUTXOs,
          IncludeNonNativeUTXOs |-> tx.IncludeNonNativeUTXOs]

\* the caller's record when a method of the configuration manager returns
Returned(op, arg, err, value) ==
    [IdleProc EXCEPT !.pc = "done", !.op = op, !.params = arg, !.err = err,
                     !.result = value]

\* the stored configuration becomes newConfig when err is nil and stays otherwise; the
\* history of completed fetches ends when caching is switched off
ConfigCall(p, op, arg, err, newConfig) ==
    /\ config' = IF err = NoErr THEN newConfig ELSE config
    /\ hist' = IF err = NoErr /\ ~newConfig.utxo.EnableCaching
               THEN [a \in Addrs |-> None] ELSE hist
    /\ Set(p, Returned(op, arg, err, None))
    /\ UNCHANGED <<now, chain, maxRetries, retryDelay, sel>>

UpdateConfig(p, c) ==
    /\ CanStart(p)
    /\ ConfigCall(p, "UpdateConfig", c, validateConfig(c),
                  IF validateConfig(c) = NoErr
                  THEN [net |-> deepCopyNetworkConfig(c.Network),
                        utxo |-> deepCopyUTXOConfig(c.UTXO),
                        tx |-> deepCopyTransactionConfig(c.Transaction)]
                  ELSE config)

UpdateNetworkConfig(p, network) ==
    /\ CanStart(p)
    /\ ConfigCall(p, "UpdateNetworkConfig", network, validateNetworkConfig(network),
                  [config EXCEPT !.net = deepCopyNetworkConfig(network)])

\* a rejected configuration is not stored; an accepted one replaces the section
UpdateUTXOConfig(p, utxo) ==
    /\ CanStart(p)
    /\ ConfigCall(p, "UpdateUTXOConfig", utxo, validateUTXOConfig(utxo),
                  [config EXCEPT !.utxo = deepCopyUTXOConfig(utxo)])

UpdateTransactionConfig(p, tx) ==
    /\ CanStart(p)
    /\ ConfigCall(p, "UpdateTransactionConfig", tx, validateTransactionConfig(tx),
                  [config EXCEPT !.tx = deepCopyTransactionConfig(tx)])

SetNetworkType(p, networkType) ==
    /\ CanStart(p)
    /\ ConfigCall(p, "SetNetworkType", [Type |-> networkType],
                  IF networkType \in {"mainnet", "testnet"} THEN NoErr
                  ELSE "unsupported network type",
                  [config EXCEPT !.net = IF networkType = "mainnet" THEN getMainnetConfig
                                         ELSE getTestnetConfig])

\* a getter returns a deep copy of what is stored
ConfigGet(p, op, value) ==
    /\ Set(p, Returned(op, None, NoErr, value))
    /\ UNCHANGED <<now, chain, config, maxRetries, retryDelay, sel, hist>>

GetConfig(p) ==
    /\ CanStart(p)
    /\ ConfigGet(p, "GetConfig",
                 [Network |-> deepCopyNetworkConfig(config.net),
                  UTXO |-> deepCopyUTXOConfig(config.utxo),
                  Transaction |-> deepCopyTransactionConfig(config.tx)])

GetNetworkConfig(p) ==
    /\ CanStart(p)
    /\ ConfigGet(p, "GetNetworkConfig", deepCopyNetworkConfig(config.net))

GetUTXOConfig(p) ==
    /\ CanStart(p)
    /\ ConfigGet(p, "GetUTXOConfig", deepCopyUTXOConfig(config.utxo))

GetTransactionConfig(p) ==
    /\ CanStart(p)
    /\ ConfigGet(p, "GetTransactionConfig", deepCopyTransactionConfig(config.tx))

(***************************************************************************)
(* The environment: time passes, the address receives a new output.        *)
(***************************************************************************)
Tick ==
    /\ now < MaxTime
    /\ now' = now + 1
    /\ UNCHANGED <<chain, config, maxRetries, retryDelay, cache, heap, proc, sel, hist>>

Receive(id) ==
    /\ id \notin chain.unspent \cup chain.spent
    /\ chain' = [chain EXCEPT !.unspent = @ \cup {id}]
    /\ UNCHANGED <<now, config, maxRetries, retryDelay, cache, heap, proc, sel, hist>>

(***************************************************************************)
(* Builder.BuildTransaction and Builder.SignAndSendTransaction.            *)
(***************************************************************************)
\* the key-derivation collaborator: the address a credential resolves to
KeyAddress == [k1 |-> "a1", k2 |-> "a2"]

\* mutant: the resolved address is not compared with the declared sender
ResolveSenderTrusting(params, networkConfig) ==
    IF params.PrivateKey \notin DOMAIN KeyAddress
    THEN "failed to get sender info"
    ELSE IF ~networkConfig.IsTestnet
         THEN "failed to get sender info"
         ELSE ""

\* Builder.getSenderInfo followed by the sender check of lines 56-59
ResolveSender(params, networkConfig) ==
    IF params.PrivateKey \notin DOMAIN KeyAddress
    THEN "failed to get sender info"
    ELSE IF ~networkConfig.IsTestnet
         THEN "failed to get sender info"
         ELSE IF KeyAddress[params.PrivateKey] # params.From
              THEN "sender address mismatch"
              ELSE ""

\* mutant: errors are not checked, the call carries on
StepFailedIgnored(err) == FALSE

\* the "if err != nil { return nil, ... }" that follows every step
StepFailed(err) == err # ""

\* a step of the transaction pipeline ended: record it, return its error or go on
TxStep(r, step, err, next) ==
    LET done == [r EXCEPT !.trace = Append(@, step)]
    IN  IF err # ""
        THEN IF StepFailed(err)
             THEN Finished([done EXCEPT !.err = err, !.failedAt = step])
             ELSE [done EXCEPT !.failedAt = step, !.pc = next]
        ELSE [done EXCEPT !.pc = next]

StartBuildTransaction(p, ps) ==
    /\ CanStart(p)
    /\ Set(p, [IdleProc EXCEPT !.op = "BuildTransaction", !.addr = ps.From,
                               !.params = ps, !.pc = "T_validate"])
    /\ UNCHANGED <<now, chain, config, maxRetries, retryDelay, sel, hist>>

StartSignAndSendTransaction(p, ps) ==
    /\ CanStart(p)
    /\ Set(p, [IdleProc EXCEPT !.op = "SignAndSendTransaction", !.addr = ps.From,
                               !.params = ps, !.pc = "T_validate"])
    /\ UNCHANGED <<now, chain, config, maxRetries, retryDelay, sel, hist>>

\* part_003 lines 45-48: validateParams
TxValidate(p) ==
    LET r == proc[p]
        verr == validateParams(r.params, config.tx)
    IN  /\ r.pc = "T_validate"
        /\ Set(p, TxStep([r EXCEPT !.feeRate = DefaultedFeeRate(r.params.FeeRate, config.tx)],
                         "validate", verr, "T_sender"))
        /\ UNCHANGED <<now, chain, config, maxRetries, retryDelay, sel, hist>>

\* lines 50-59: resolve the sender from the credential and compare with params.From
TxResolveSender(p) ==
    LET r == proc[p]
    IN  /\ r.pc = "T_sender"
        /\ Set(p, TxStep(r, "resolve", ResolveSender(r.params, config.net), "T_select"))
        /\ UNCHANGED <<now, chain, config, maxRetries, retryDelay, sel, hist>>

\* lines 61-82: selection starts; SelectUTXOs reads the transaction configuration
\* (manager.go line 245) and calls GetUTXOs
TxSelectStart(p) ==
    LET r == proc[p]
    IN  /\ r.pc = "T_select"
        /\ Set(p, [r EXCEPT !.scfg = config.tx,
                            !.feeRate = IF Len(r.params.TokenTransfers) > 0 THEN @
                                        ELSE DefaultedFeeRate(@, config.tx),
                            !.pc = "G_cache", !.cont = "T_selected"])
        /\ UNCHANGED <<now, chain, config, maxRetries, retryDelay, sel, hist>>

\* GetUTXOs has returned: the selection proper, then the inputs of lines 84-97
TxSelected(p) ==
    LET r == proc[p]
        s == SelectForParams([r.params EXCEPT !.FeeRate = r.feeRate], r.utxos, r.scfg)
        err == IF r.gerr # NoErr THEN r.gerr ELSE s.err
    IN  /\ r.pc = "T_selected"
        /\ Set(p, TxStep([r EXCEPT !.selected = IF err = "" THEN s.utxos ELSE <<>>,
                                   !.fee = IF err = "" THEN s.fee ELSE 0,
                                   !.scfg = None, !.utxos = <<>>, !.gerr = NoErr],
                         "select", err, "T_outputs"))
        /\ UNCHANGED <<now, chain, config, maxRetries, retryDelay, sel, hist>>

\* lines 99-103: addOutputs
TxAddOutputs(p) ==
    LET r == proc[p]
        o == addOutputs([r.params EXCEPT !.FeeRate = r.feeRate], r.selected, r.fee, config.tx)
    IN  /\ r.pc = "T_outputs"
        /\ Set(p, TxStep([r EXCEPT !.tx = o.outs], "outputs", o.err, "T_sign"))
        /\ UNCHANGED <<now, chain, config, maxRetries, retryDelay, sel, hist>>

\* lines 105-110: signTransaction signs every input; BuildTransaction returns here
TxSign(p) ==
    LET r == proc[p]
        signed == TxStep(r, "sign", "", "T_broadcast")
    IN  /\ r.pc = "T_sign"
        /\ IF r.op = "BuildTransaction"
           THEN Set(p, Finished(signed))
           ELSE Set(p, signed)
        /\ UNCHANGED <<now, chain, config, maxRetries, retryDelay, sel, hist>>

(***************************************************************************)
(* Builder.broadcastTransaction: one POST of the serialized transaction.   *)
(***************************************************************************)
BroadcastOutcomes == {"accepted", "rejected", "transport", "transport_after_accept"}

InputIds(utxos) == {utxos[i].txid : i \in DOMAIN utxos}

\* mutant: a failed submission is submitted again
AfterBroadcastRetrying(r, outcome) ==
    LET sent == [r EXCEPT !.nbcast = @ + 1,
                          !.diag = IF outcome = "rejected" THEN "response body" ELSE ""]
    IN  IF outcome = "accepted"
        THEN TxStep(sent, "broadcast", "", "T_result")
        ELSE [sent EXCEPT !.pc = "T_broadcast"]

\* lines 121-133 and 393-419: the caller after the submission returned
AfterBroadcast(r, outcome) ==
    LET sent == [r EXCEPT !.nbcast = @ + 1,
                          !.diag = IF outcome = "rejected" THEN "response body" ELSE ""]
        err == IF outcome = "accepted" THEN ""
               ELSE IF outcome = "rejected" THEN "broadcast failed with status"
                    ELSE "failed to send request"
    IN  TxStep(sent, "broadcast", err, "T_result")

TxBroadcast(p, outcome) ==
    LET r == proc[p]
        ids == InputIds(r.selected)
        lands == outcome \in {"accepted", "transport_after_accept"}
    IN  /\ r.pc = "T_broadcast"
        /\ lands => ids \subseteq chain.unspent
        /\ Set(p, AfterBroadcast(r, outcome))
        /\ chain' = IF lands
                    THEN [unspent |-> chain.unspent \ ids, spent |-> chain.spent \cup ids,
                          sent |-> IF outcome = "accepted" THEN chain.sent \cup ids
                                   ELSE chain.sent]
                    ELSE chain
        /\ UNCHANGED <<now, config, maxRetries, retryDelay, sel, hist>>

(***************************************************************************)
(* Builder.calculateTransactionResult.                                     *)
(***************************************************************************)
\* lines 436: SelectUTXOs is invoked again with the same parameters
TxResultStart(p) ==
    LET r == proc[p]
    IN  /\ r.pc = "T_result"
        /\ Set(p, [r EXCEPT !.scfg = config.tx, !.pc = "G_cache", !.cont = "T_result2"])
        /\ UNCHANGED <<now, chain, config, maxRetries, retryDelay, sel, hist>>

\* lines 435-441: the loop appends &utxo; with a per-loop variable (Go before 1.22)
\* every element points at the last output, with a per-iteration one at its own
InputsUsed(selectedUTXOs, aliased) ==
    IF aliased
    THEN [i \in DOMAIN selectedUTXOs |-> selectedUTXOs[Len(selectedUTXOs)]]
    ELSE selectedUTXOs

OutputsCreated(outs) == [i \in DOMAIN outs |-> [Amount |-> outs[i].value, IsData |-> FALSE]]

calculateTransactionResult(outs, params, selection, aliased) ==
    LET selectedUTXOs == IF selection.err = "" THEN selection.utxos ELSE <<>>
        totalInput == SumValues(selectedUTXOs)
        change == IF Len(outs) > 1 THEN outs[2].value ELSE 0
        fee == IF Len(outs) > 1
               THEN Sub64(Sub64(totalInput, params.Amount), change)
               ELSE Sub64(totalInput, params.Amount)
    IN  [Fee |-> fee, Change |-> change,
         InputsUsed |-> InputsUsed(selectedUTXOs, aliased),
         OutputsCreated |-> OutputsCreated(outs),
         TokenTransfers |-> params.TokenTransfers, DataOutputs |-> params.DataOutputs]

TxResult(p, aliased) ==
    LET r == proc[p]
        ps == [r.params EXCEPT !.FeeRate = r.feeRate]
        s == IF r.gerr # NoErr THEN SelErr(r.gerr, 0, 0)
             ELSE SelectUTXOs(r.utxos, ps.Amount, ps.FeeRate, r.scfg)
        res == calculateTransactionResult(r.tx, ps, s, aliased)
    IN  /\ r.pc = "T_result2"
        /\ Set(p, Finished(TxStep([r EXCEPT !.result = res], "result", "", "done")))
        /\ UNCHANGED <<now, chain, config, maxRetries, retryDelay, sel, hist>>

(***************************************************************************)
(* Initial states.                                                         *)
(***************************************************************************)

\* a UTXO configuration with the cache switched on or off and a lifetime of ttl
UTXOConfigWith(caching, ttl) ==
    [getDefaultUTXOConfig EXCEPT !.EnableCaching = caching, !.CacheExpiry = ttl]

\* a transaction configuration scaled to the values of the ledger
SmallTransactionConfig ==
    [getDefaultTransactionConfig EXCEPT !.DefaultFeeRate = 1, !.MaxFeeRate = 2,
                                        !.DustLimit = 200]

(***************************************************************************)
(* SpecRetry: one caller fetching outputs and balances under every retry   *)
(* budget and delay, every attempt failing in any way or succeeding.       *)
(***************************************************************************)
NextRetry ==
    \/ Tick
    \/ \E a \in {"a1"} : StartGetUTXOs("p1", a)
    \/ \E a \in {"a1"} : StartGetEnhancedBalance("p1", a)
    \/ GetUTXOsCacheCheck("p1")
    \/ GetUTXOsReadConfig("p1")
    \/ RequestLoopExit("p1")
    \/ RequestOk("p1")
    \/ \E kind \in FailKinds : RequestFail("p1", kind)
    \/ GetUTXOsStore("p1")
    \/ BalanceCacheCheck("p1")
    \/ BalanceReadCached("p1")
    \/ BalanceReadConfig("p1")
    \/ BalanceCompute("p1")
    \/ BalanceWriteCached("p1")
    \/ BalanceStore("p1")

SpecRetry ==
    /\ now = 0
    /\ chain = [unspent |-> {1, 4}, spent |-> {}, sent |-> {}]
    /\ cache = [a \in Addrs |-> NoObj]
    /\ heap = [o \in ObjIds |-> Free]
    /\ proc = [p \in Procs |-> IdleProc]
    /\ sel = None
    /\ hist = [a \in Addrs |-> None]
    /\ maxRetries \in 0 .. MaxRetriesTried
    /\ retryDelay \in 0 .. MaxDelayTried
    /\ config = [utxo |-> UTXOConfigWith(TRUE, 1), tx |-> SmallTransactionConfig,
                 net |-> getTestnetConfig]
    /\ [][NextRetry]_vars

(***************************************************************************)
(* SpecTx: one caller building and sending transactions, against a cache   *)
(* with a lifetime of one time unit and a remote service whose requests    *)
(* may fail.                                                               *)
(***************************************************************************)
BaseParams ==
    [From |-> "a1", To |-> "r1", Amount |-> 100, FeeRate |-> 1, PrivateKey |-> "k1",
     IncludeNativeUTXOs |-> TRUE, IncludeNonNativeUTXOs |-> FALSE,
     TokenTransfers |-> <<>>, DataOutputs |-> <<>>]

TxParams ==
    {BaseParams,
     [BaseParams EXCEPT !.From = ""],
     [BaseParams EXCEPT !.To = ""],
     [BaseParams EXCEPT !.To = "bogus"],
     [BaseParams EXCEPT !.Amount = 0],
     [BaseParams EXCEPT !.Amount = 1200],
     [BaseParams EXCEPT !.Amount = 5000],
     [BaseParams EXCEPT !.PrivateKey = ""],
     [BaseParams EXCEPT !.PrivateKey = "junk"],
     [BaseParams EXCEPT !.PrivateKey = "k2"],
     [BaseParams EXCEPT !.FeeRate = 0],
     [BaseParams EXCEPT !.FeeRate = 3],
     [BaseParams EXCEPT !.IncludeNativeUTXOs = FALSE, !.IncludeNonNativeUTXOs = TRUE],
     [BaseParams EXCEPT !.TokenTransfers = <<[TokenID |-> "T", To |-> "r1", Amount |-> 5]>>],
     [BaseParams EXCEPT !.TokenTransfers = <<[TokenID |-> "", To |-> "r1", Amount |-> 5]>>],
     [BaseParams EXCEPT !.TokenTransfers = <<[TokenID |-> "T", To |-> "", Amount |-> 5]>>],
     [BaseParams EXCEPT !.TokenTransfers = <<[TokenID |-> "T", To |-> "r1", Amount |-> 0]>>],
     [BaseParams EXCEPT !.DataOutputs = <<[Data |-> "beef"]>>],
     [BaseParams EXCEPT !.DataOutputs = <<[Data |-> "zz"]>>]}

NextTx ==
    \/ Tick
    \/ \E id \in {2} : Receive(id)
    \/ \E ps \in TxParams : StartBuildTransaction("p1", ps)
    \/ \E ps \in TxParams : StartSignAndSendTransaction("p1", ps)
    \/ TxValidate("p1")
    \/ TxResolveSender("p1")
    \/ TxSelectStart("p1")
    \/ GetUTXOsCacheCheck("p1")
    \/ GetUTXOsReadConfig("p1")
    \/ RequestOk("p1")
    \/ \E kind \in FailKinds : RequestFail("p1", kind)
    \/ GetUTXOsStore("p1")
    \/ TxSelected("p1")
    \/ TxAddOutputs("p1")
    \/ TxSign("p1")
    \/ \E outcome \in BroadcastOutcomes : TxBroadcast("p1", outcome)
    \/ TxResultStart("p1")
    \/ \E aliased \in BOOLEAN : TxResult("p1", aliased)

SpecTx ==
    /\ now = 0
    /\ chain = [unspent |-> {1, 4}, spent |-> {}, sent |-> {}]
    /\ cache = [a \in Addrs |-> NoObj]
    /\ heap = [o \in ObjIds |-> Free]
    /\ proc = [p \in Procs |-> IdleProc]
    /\ sel = None
    /\ hist = [a \in Addrs |-> None]
    /\ maxRetries = 2
    /\ retryDelay = 1
    /\ config = [utxo |-> UTXOConfigWith(TRUE, 1), tx |-> SmallTransactionConfig,
                 net |-> getTestnetConfig]
    /\ [][NextTx]_vars

(***************************************************************************)
(* SpecSel: selection and assembly as pure functions.  The initial states  *)
(* draw an output list, a request and a transaction configuration; the     *)
(* actions apply SelectUTXOs and then validate, select and addOutputs.     *)
(***************************************************************************)
SelKinds ==
    {[value |-> 1000, isNative |-> TRUE, tokenID |-> "", tokenAmount |-> 0],
     [value |-> 526, isNative |-> TRUE, tokenID |-> "", tokenAmount |-> 0],
     [value |-> 300, isNative |-> TRUE, tokenID |-> "", tokenAmount |-> 0],
     [value |-> 1, isNative |-> FALSE, tokenID |-> "T", tokenAmount |-> 5],
     [value |-> 1, isNative |-> FALSE, tokenID |-> "T", tokenAmount |-> 10],
     [value |-> 1, isNative |-> FALSE, tokenID |-> "U", tokenAmount |-> 10]}

\* the i-th discovered output of kind k
SelUTXO(k, i) ==
    [txid |-> i, value |-> k.value, address |-> "a1", confirmations |-> 1,
     isNative |-> k.isNative, tokenID |-> k.tokenID, tokenAmount |-> k.tokenAmount]

SelLists ==
    UNION {{[i \in 1 .. n |-> SelUTXO(ks[i], i)] : ks \in [1 .. n -> SelKinds]} : n \in 0 .. MaxLen}

SelConfigs ==
    {[getDefaultTransactionConfig EXCEPT !.DefaultFeeRate = 1, !.MinFeeRate = 1,
                                         !.MaxFeeRate = 2, !.DustLimit = 200],
     [getDefaultTransactionConfig EXCEPT !.DefaultFeeRate = 2, !.MinFeeRate = 2,
                                         !.MaxFeeRate = 3, !.DustLimit = 0,
                                         !.IncludeNonNativeUTXOs = TRUE]}

SelParams ==
    [From : {"a1"}, To : {"r1"}, PrivateKey : {"k1"},
     Amount : {100, 500, 1000}, FeeRate : {0, 1, 2, 3},
     TokenTransfers : {<<>>, <<[TokenID |-> "T", To |-> "r1", Amount |-> 12],
                                [TokenID |-> "U", To |-> "a2", Amount |-> 3]>>},
     DataOutputs : {<<>>, <<[Data |-> "beef"], [Data |-> "cafe"]>>}]

\* validateParams, selection and addOutputs of BuildTransaction on a given output list
BuildSkeleton(params, allUTXOs, txConfig) ==
    LET verr == validateParams(params, txConfig)
        ps == [params EXCEPT !.FeeRate = DefaultedFeeRate(@, txConfig)]
        s == SelectForParams(ps, allUTXOs, txConfig)
        o == addOutputs(ps, s.utxos, s.fee, txConfig)
        \* what CalculateChange returned, when addOutputs got as far as calling it
        c == IF o.err \in {"", "invalid sender address"}
             THEN CalculateChange(s.utxos, ps.Amount, s.fee, txConfig)
             ELSE None
    IN  IF verr # ""
        THEN [err |-> verr, inputs |-> <<>>, fee |-> 0, outs |-> <<>>, change |-> None]
        ELSE IF s.err # ""
             THEN [err |-> s.err, inputs |-> <<>>, fee |-> 0, outs |-> <<>>, change |-> None]
             ELSE [err |-> o.err, inputs |-> s.utxos, fee |-> s.fee, outs |-> o.outs,
                   change |-> c]

ApplySelect ==
    /\ sel.stage = "in"
    /\ sel' = [sel EXCEPT !.stage = "selected",
                          !.select = SelectUTXOs(sel.utxos, sel.params.Amount,
                                                 sel.params.FeeRate, config.tx)]
    /\ UNCHANGED <<now, chain, config, maxRetries, retryDelay, cache, heap, proc, hist>>

ApplyBuild ==
    /\ sel.stage = "selected"
    /\ sel' = [sel EXCEPT !.stage = "built",
                          !.build = BuildSkeleton(sel.params, sel.utxos, config.tx)]
    /\ UNCHANGED <<now, chain, config, maxRetries, retryDelay, cache, heap, proc, hist>>

\* Manager.SelectUTXOsForTokenTransfer for the first token transfer of the request
ApplySelectToken ==
    /\ sel.stage = "built"
    /\ Len(sel.params.TokenTransfers) > 0
    /\ sel' = [sel EXCEPT !.stage = "tokens",
                          !.token = SelectUTXOsForTokenTransfer(
                                        sel.utxos, sel.params.TokenTransfers[1].TokenID,
                                        sel.params.TokenTransfers[1].Amount,
                                        sel.params.FeeRate)]
    /\ UNCHANGED <<now, chain, config, maxRetries, retryDelay, cache, heap, proc, hist>>

NextSel == ApplySelect \/ ApplyBuild \/ ApplySelectToken

SpecSel ==
    /\ now = 0
    /\ chain = [unspent |-> {}, spent |-> {}, sent |-> {}]
    /\ cache = [a \in Addrs |-> NoObj]
    /\ heap = [o \in ObjIds |-> Free]
    /\ proc = [p \in Procs |-> IdleProc]
    /\ hist = [a \in Addrs |-> None]
    /\ maxRetries = 3
    /\ retryDelay = 1
    /\ \E c \in SelConfigs :
         config = [utxo |-> getDefaultUTXOConfig, tx |-> c, net |-> getTestnetConfig]
    /\ \E l \in SelLists, ps \in SelParams :
         sel = [stage |-> "in", utxos |-> l, params |-> ps,
                select |-> None, build |-> None, token |-> None]
    /\ [][NextSel]_vars

(***************************************************************************)
(* SpecWide: SelectUTXOs on amounts and output values from the whole word  *)
(* range, the largest representable value included.                        *)
(***************************************************************************)
SpecWide ==
    /\ now = 0
    /\ chain = [unspent |-> {}, spent |-> {}, sent |-> {}]
    /\ cache = [a \in Addrs |-> NoObj]
    /\ heap = [o \in ObjIds |-> Free]
    /\ proc = [p \in Procs |-> IdleProc]
    /\ hist = [a \in Addrs |-> None]
    /\ maxRetries = 3
    /\ retryDelay = 1
    /\ \E c \in SelConfigs :
         config = [utxo |-> getDefaultUTXOConfig, tx |-> c, net |-> getTestnetConfig]
    /\ \E n \in 0 .. 2 :
         \E vs \in [1 .. n -> {1000, Pow2(IntBits - 2), Pow2(IntBits - 1) - 1}] :
           \E amount \in {100, Pow2(IntBits - 2), Pow2(IntBits - 1) - 1}, rate \in {1, 2} :
             sel = [stage |-> "in",
                    utxos |-> [i \in 1 .. n |->
                                 SelUTXO([value |-> vs[i], isNative |-> TRUE,
                                          tokenID |-> "", tokenAmount |-> 0], i)],
                    params |-> [BaseParams EXCEPT !.Amount = amount, !.FeeRate = rate],
                    select |-> None, build |-> None, token |-> None]
    /\ [][ApplySelect]_vars

(***************************************************************************)
(* SpecConc: two callers sharing one Manager, fetching the outputs and the *)
(* balance of one address and invalidating the cache, in every             *)
(* interleaving of their steps; the address may receive a new output.      *)
(***************************************************************************)
NextConc ==
    \/ now < MaxTimeConc /\ Tick
    \/ \E id \in {2} : Receive(id)
    \/ \E p \in Procs : StartGetUTXOs(p, "a1")
    \/ \E p \in Procs : StartGetEnhancedBalance(p, "a1")
    \/ \E p \in Procs : ClearCache(p)
    \/ \E p \in Procs : ClearCacheForAddress(p, "a1")
    \/ \E p \in Procs : GetUTXOsCacheCheck(p)
    \/ \E p \in Procs : GetUTXOsReadConfig(p)
    \/ \E p \in Procs : RequestOk(p)
    \/ \E p \in Procs : RequestFail(p, "transport")
    \/ \E p \in Procs : GetUTXOsStore(p)
    \/ \E p \in Procs : BalanceCacheCheck(p)
    \/ \E p \in Procs : BalanceReadCached(p)
    \/ \E p \in Procs : BalanceReadConfig(p)
    \/ \E p \in Procs : BalanceCompute(p)
    \/ \E p \in Procs : BalanceWriteCached(p)
    \/ \E p \in Procs : BalanceStore(p)

SpecConc ==
    /\ now = 0
    /\ chain = [unspent |-> {1, 4}, spent |-> {}, sent |-> {}]
    /\ cache = [a \in Addrs |-> NoObj]
    /\ heap = [o \in ObjIds |-> Free]
    /\ proc = [p \in Procs |-> IdleProc]
    /\ sel = None
    /\ hist = [a \in Addrs |-> None]
    /\ maxRetries = 1
    /\ retryDelay = 0
    /\ config = [utxo |-> UTXOConfigWith(TRUE, 1), tx |-> SmallTransactionConfig,
                 net |-> getTestnetConfig]
    /\ [][NextConc]_vars

(***************************************************************************)
(* SpecSwitch: one caller fetching outputs and balances while a second one *)
(* turns the caching switch of the configuration off and on.               *)
(***************************************************************************)
NextSwitch ==
    \/ Tick
    \/ \E id \in {2} : Receive(id)
    \/ \E c \in {UTXOConfigWith(TRUE, 1), UTXOConfigWith(FALSE, 1),
                 [getDefaultUTXOConfig EXCEPT !.CacheExpiry = 0 - 1]} :
          UpdateUTXOConfig("p2", c)
    \/ StartGetUTXOs("p1", "a1")
    \/ StartGetEnhancedBalance("p1", "a1")
    \/ GetUTXOsCacheCheck("p1")
    \/ GetUTXOsReadConfig("p1")
    \/ RequestOk("p1")
    \/ RequestFail("p1", "status")
    \/ GetUTXOsStore("p1")
    \/ BalanceCacheCheck("p1")
    \/ BalanceReadCached("p1")
    \/ BalanceReadConfig("p1")
    \/ BalanceCompute("p1")
    \/ BalanceWriteCached("p1")
    \/ BalanceStore("p1")

SpecSwitch ==
    /\ now = 0
    /\ chain = [unspent |-> {1, 4}, spent |-> {}, sent |-> {}]
    /\ cache = [a \in Addrs |-> NoObj]
    /\ heap = [o \in ObjIds |-> Free]
    /\ proc = [p \in Procs |-> IdleProc]
    /\ sel = None
    /\ hist = [a \in Addrs |-> None]
    /\ maxRetries = 1
    /\ retryDelay = 0
    /\ config = [utxo |-> UTXOConfigWith(TRUE, 1), tx |-> SmallTransactionConfig,
                 net |-> getTestnetConfig]
    /\ [][NextSwitch]_vars

(***************************************************************************)
(* SpecBal: the balance snapshot.  Either the snapshot computation of      *)
(* GetEnhancedBalance is applied to a drawn balance response and output    *)
(* list (native and token outputs, confirmed or not, amounts up to the     *)
(* largest int64), or one caller runs GetEnhancedBalance against the       *)
(* remote service and the cache.                                           *)
(***************************************************************************)
BalKinds ==
    {[value |-> 1000, confirmations |-> 1, isNative |-> TRUE, tokenID |-> "",
      tokenAmount |-> 0],
     [value |-> 1, confirmations |-> 0, isNative |-> FALSE, tokenID |-> "T",
      tokenAmount |-> 5],
     [value |-> 1, confirmations |-> 2, isNative |-> FALSE, tokenID |-> "T",
      tokenAmount |-> 10],
     [value |-> 1, confirmations |-> 1, isNative |-> FALSE, tokenID |-> "U",
      tokenAmount |-> 7],
     [value |-> 1, confirmations |-> 1, isNative |-> FALSE, tokenID |-> "T",
      tokenAmount |-> Pow2(IntBits - 1) - 1]}

BalUTXO(k, i) ==
    [txid |-> i, value |-> k.value, address |-> "a1", confirmations |-> k.confirmations,
     isNative |-> k.isNative, tokenID |-> k.tokenID, tokenAmount |-> k.tokenAmount]

BalLists ==
    UNION {{[i \in 1 .. n |-> BalUTXO(ks[i], i)] : ks \in [1 .. n -> BalKinds]} : n \in 0 .. MaxLen}

\* lines 144-199 applied to the drawn response and output list
ApplyBalance ==
    /\ sel # None
    /\ sel.stage = "in"
    /\ sel' = [sel EXCEPT !.stage = "out",
                          !.balance = EnhancedBalance(sel.balResp, sel.utxos, config.utxo)]
    /\ UNCHANGED <<now, chain, config, maxRetries, retryDelay, cache, heap, proc, hist>>

NextBal ==
    \/ ApplyBalance
    \/ sel = None /\ Tick
    \/ sel = None /\ Receive(2)
    \/ sel = None /\ StartGetEnhancedBalance("p1", "a1")
    \/ BalanceCacheCheck("p1")
    \/ BalanceReadCached("p1")
    \/ BalanceReadConfig("p1")
    \/ RequestOk("p1")
    \/ RequestFail("p1", "decode")
    \/ GetUTXOsCacheCheck("p1")
    \/ GetUTXOsReadConfig("p1")
    \/ GetUTXOsStore("p1")
    \/ BalanceCompute("p1")
    \/ BalanceWriteCached("p1")
    \/ BalanceStore("p1")

SpecBal ==
    /\ now = 0
    /\ chain = [unspent |-> {1, 4}, spent |-> {}, sent |-> {}]
    /\ cache = [a \in Addrs |-> NoObj]
    /\ heap = [o \in ObjIds |-> Free]
    /\ proc = [p \in Procs |-> IdleProc]
    /\ hist = [a \in Addrs |-> None]
    /\ maxRetries = 1
    /\ retryDelay = 0
    /\ \E m \in {1, 2} :
         config = [utxo |-> [UTXOConfigWith(TRUE, 1) EXCEPT !.MinConfirmations = m],
                   tx |-> SmallTransactionConfig, net |-> getTestnetConfig]
    /\ \/ sel = None
       \/ \E l \in BalLists,
             b \in {[confirmed |-> 0, unconfirmed |-> 0],
                    [confirmed |-> 1000, unconfirmed |-> 300],
                    [confirmed |-> Pow2(IntBits - 1) - 1, unconfirmed |-> 526]} :
            sel = [stage |-> "in", utxos |-> l, balResp |-> b, balance |-> None]
    /\ [][NextBal]_vars

(***************************************************************************)
(* SpecFetch: one caller fetching the outputs of an address under every    *)
(* combination of minimum confirmations, cap on the outputs per query and  *)
(* cache lifetime, while the address receives further outputs (the last    *)
(* one reported is not the smallest).                                      *)
(***************************************************************************)
NextFetch ==
    \/ Tick
    \/ \E id \in {2, 3, 5} : Receive(id)
    \/ StartGetUTXOs("p1", "a1")
    \/ GetUTXOsCacheCheck("p1")
    \/ GetUTXOsReadConfig("p1")
    \/ RequestOk("p1")
    \/ RequestFail("p1", "status")
    \/ GetUTXOsStore("p1")

SpecFetch ==
    /\ now = 0
    /\ chain = [unspent |-> {1, 4}, spent |-> {}, sent |-> {}]
    /\ cache = [a \in Addrs |-> NoObj]
    /\ heap = [o \in ObjIds |-> Free]
    /\ proc = [p \in Procs |-> IdleProc]
    /\ sel = None
    /\ hist = [a \in Addrs |-> None]
    /\ maxRetries = 1
    /\ retryDelay = 0
    /\ \E m \in {0, 1, 2}, x \in {1, 2, 100}, t \in {0, 1} :
         config = [utxo |-> [IncludeNative |-> TRUE, IncludeNonNative |-> TRUE,
                             MinConfirmations |-> m, MaxUTXOsPerQuery |-> x,
                             EnableCaching |-> TRUE, CacheExpiry |-> t],
                   tx |-> SmallTransactionConfig, net |-> getTestnetConfig]
    /\ [][NextFetch]_vars

(***************************************************************************)
(* SpecClear: a caller fetching the outputs of two addresses while the     *)
(* cache is invalidated, as a whole or for one address, by that caller     *)
(* between its calls or by a second caller at any moment.                  *)
(***************************************************************************)
NextClear ==
    \/ Tick
    \/ \E id \in {2} : Receive(id)
    \/ \E a \in Addrs : StartGetUTXOs("p1", a)
    \/ GetUTXOsCacheCheck("p1")
    \/ GetUTXOsReadConfig("p1")
    \/ RequestOk("p1")
    \/ RequestFail("p1", "read")
    \/ GetUTXOsStore("p1")
    \/ \E p \in Procs : ClearCache(p)
    \/ \E p \in Procs, a \in Addrs : ClearCacheForAddress(p, a)

SpecClear ==
    /\ now = 0
    /\ chain = [unspent |-> {1, 4}, spent |-> {}, sent |-> {}]
    /\ cache = [a \in Addrs |-> NoObj]
    /\ heap = [o \in ObjIds |-> Free]
    /\ proc = [p \in Procs |-> IdleProc]
    /\ sel = None
    /\ hist = [a \in Addrs |-> None]
    /\ maxRetries = 1
    /\ retryDelay = 0
    /\ config = [utxo |-> UTXOConfigWith(TRUE, 1), tx |-> SmallTransactionConfig,
                 net |-> getTestnetConfig]
    /\ [][NextClear]_vars

(***************************************************************************)
(* SpecConfig: two callers of one configuration manager, each updating a   *)
(* section or the whole configuration with valid, invalid and nil          *)
(* arguments and choosing a predefined network, in every interleaving; the *)
(* second caller also reads the configuration back.                        *)
(***************************************************************************)
UTXOConfigArgs ==
    {Nil,
     [getDefaultUTXOConfig EXCEPT !.MaxUTXOsPerQuery = 50, !.CacheExpiry = 60],
     [getDefaultUTXOConfig EXCEPT !.MaxUTXOsPerQuery = 51, !.MinConfirmations = 0,
                                  !.CacheExpiry = 0, !.EnableCaching = FALSE],
     [getDefaultUTXOConfig EXCEPT !.MinConfirmations = 0 - 1],
     [getDefaultUTXOConfig EXCEPT !.MaxUTXOsPerQuery = 0],
     [getDefaultUTXOConfig EXCEPT !.CacheExpiry = 0 - 1]}

TransactionConfigArgs ==
    {Nil,
     [getDefaultTransactionConfig EXCEPT !.DefaultFeeRate = 10, !.MinFeeRate = 2,
                                         !.MaxFeeRate = 2, !.DustLimit = 0],
     [getDefaultTransactionConfig EXCEPT !.DefaultFeeRate = 0],
     [getDefaultTransactionConfig EXCEPT !.MinFeeRate = 0],
     [getDefaultTransactionConfig EXCEPT !.MaxFeeRate = 0 - 1, !.MinFeeRate = 0 - 2,
                                         !.DefaultFeeRate = 0 - 1],
     [getDefaultTransactionConfig EXCEPT !.MinFeeRate = 3, !.MaxFeeRate = 2],
     [getDefaultTransactionConfig EXCEPT !.DustLimit = 0 - 1],
     [getDefaultTransactionConfig EXCEPT !.MaxTransactionSize = 0]}

NetworkConfigArgs ==
    {Nil,
     [getMainnetConfig EXCEPT !.Name = "Custom", !.ChainID = "custom"],
     [getTestnetConfig EXCEPT !.Name = ""],
     [getTestnetConfig EXCEPT !.RPCURL = ""],
     [getTestnetConfig EXCEPT !.ExplorerURL = ""],
     [getTestnetConfig EXCEPT !.ChainID = ""]}

ConfigArgs ==
    {Nil,
     [Network |-> getMainnetConfig,
      UTXO |-> [getDefaultUTXOConfig EXCEPT !.MaxUTXOsPerQuery = 50, !.CacheExpiry = 60],
      Transaction |-> getDefaultTransactionConfig],
     [Network |-> Nil, UTXO |-> getDefaultUTXOConfig,
      Transaction |-> getDefaultTransactionConfig],
     [Network |-> getMainnetConfig,
      UTXO |-> [getDefaultUTXOConfig EXCEPT !.MaxUTXOsPerQuery = 0],
      Transaction |-> getDefaultTransactionConfig],
     [Network |-> getMainnetConfig, UTXO |-> getDefaultUTXOConfig,
      Transaction |-> [getDefaultTransactionConfig EXCEPT !.MinFeeRate = 3,
                                                          !.MaxFeeRate = 2]],
     [Network |-> getMainnetConfig, UTXO |-> getDefaultUTXOConfig, Transaction |-> Nil]}

NextConfig ==
    \/ \E p \in Procs, c \in ConfigArgs : UpdateConfig(p, c)
    \/ \E p \in Procs, n \in NetworkConfigArgs : UpdateNetworkConfig(p, n)
    \/ \E p \in Procs, u \in UTXOConfigArgs : UpdateUTXOConfig(p, u)
    \/ \E p \in Procs, t \in TransactionConfigArgs : UpdateTransactionConfig(p, t)
    \/ \E p \in Procs, ty \in {"mainnet", "testnet", "custom", ""} : SetNetworkType(p, ty)
    \/ GetConfig("p2")
    \/ GetNetworkConfig("p2")
    \/ GetUTXOConfig("p2")
    \/ GetTransactionConfig("p2")

SpecConfig ==
    /\ now = 0
    /\ chain = [unspent |-> {1, 4}, spent |-> {}, sent |-> {}]
    /\ cache = [a \in Addrs |-> NoObj]
    /\ heap = [o \in ObjIds |-> Free]
    /\ proc = [p \in Procs |-> IdleProc]
    /\ sel = None
    /\ hist = [a \in Addrs |-> None]
    /\ maxRetries = 1
    /\ retryDelay = 0
    /\ config = getDefaultConfig
    /\ [][NextConfig]_vars

(***************************************************************************)
(* sharding.Manager: SplitMnemonic and CombineShards.  A phrase is a       *)
(* sequence of bytes; a shard is a string of characters, each the value of *)
(* a hexadecimal digit (0..15) or 16 for any other character.              *)
(***************************************************************************)
\* longest list of shards of which every ordered selection is combined
MaxShares == 4
\* the largest number of shares SplitMnemonic accepts
MaxSharesAllowed == 255

\* mnemonic.Validate accepts these phrases ("ab cd", "zz", "a b c") and no other
ValidMnemonics == {<<97, 98, 32, 99, 100>>, <<122, 122>>, <<97, 32, 98, 32, 99>>}

\* hex.EncodeToString: two digits per byte, the high one first
RECURSIVE EncodeToString(_)
EncodeToString(bytes) ==
    IF bytes = <<>> THEN <<>>
    ELSE <<bytes[1] \div 16, bytes[1] % 16>> \o EncodeToString(Tail(bytes))

\* mutant: the two digits of a byte are read in the wrong order
RECURSIVE DecodeStringSwapped(_)
DecodeStringSwapped(str) ==
    IF Len(str) < 2 THEN <<>>
    ELSE <<str[2] * 16 + str[1]>> \o DecodeStringSwapped(Tail(Tail(str)))

\* hex.DecodeString on a string of an even number of hexadecimal digits
RECURSIVE DecodeString(_)
DecodeString(str) ==
    IF Len(str) < 2 THEN <<>>
    ELSE <<str[1] * 16 + str[2]>> \o DecodeString(Tail(Tail(str)))

\* Manager.validateShard: an even length, and hex.DecodeString returns no error
validateShard(shard) ==
    /\ Len(shard) % 2 = 0
    /\ \A i \in DOMAIN shard : shard[i] \in 0 .. 15

SplitErr(e) == [err |-> e, Shards |-> <<>>, Threshold |-> 0, TotalShares |-> 0]

SplitMnemonic(mnemonicPhrase, threshold0, shares0) ==
    LET threshold == IF threshold0 = 0 THEN 2 ELSE threshold0
        shares == IF shares0 = 0 THEN 3 ELSE shares0
    IN  IF mnemonicPhrase \notin ValidMnemonics THEN SplitErr("invalid mnemonic")
        ELSE IF threshold < 2 THEN SplitErr("threshold must be at least 2")
        ELSE IF shares < threshold
             THEN SplitErr("shares must be greater than or equal to threshold")
        ELSE IF shares > MaxSharesAllowed THEN SplitErr("shares cannot exceed 255")
        ELSE [err |-> "", Shards |-> [i \in 1 .. shares |-> EncodeToString(mnemonicPhrase)],
              Threshold |-> threshold, TotalShares |-> shares]

CombineErr(e) == [err |-> e, mnemonic |-> <<>>]

CombineShards(shards) ==
    LET shareData == [i \in DOMAIN shards |-> DecodeString(shards[i])]
    IN  IF Len(shards) < 2 THEN CombineErr("at least 2 shards are required")
        ELSE IF \E i \in DOMAIN shards : ~validateShard(shards[i])
             THEN CombineErr("invalid shard format")
        ELSE IF \E i \in DOMAIN shards : Len(shareData[i]) # Len(shareData[1])
             THEN CombineErr("shard has different length")
        ELSE IF shareData[1] \notin ValidMnemonics
             THEN CombineErr("reconstructed mnemonic is invalid")
        ELSE [err |-> "", mnemonic |-> shareData[1]]

(***************************************************************************)
(* SpecShard: a phrase, a threshold and a number of shares are drawn;      *)
(* SplitMnemonic is applied, then CombineShards to a selection of the      *)
(* shards it returned, in any order, possibly with one shard damaged.      *)
(***************************************************************************)
\* the selections tried: every ordered choice of distinct shards when there are at most
\* MaxShares of them, and the first k and the last k shards for every k otherwise
Selections(n) ==
    IF n <= MaxShares
    THEN {s \in UNION {[1 .. k -> 1 .. n] : k \in 1 .. n} :
             \A i, j \in DOMAIN s : i # j => s[i] # s[j]}
    ELSE UNION {{[i \in 1 .. k |-> i], [i \in 1 .. k |-> n - k + i]} : k \in 1 .. n}

ApplySplit ==
    /\ sel.stage = "in"
    /\ sel' = [sel EXCEPT !.stage = "split",
                          !.split = SplitMnemonic(sel.mnemonic, sel.threshold, sel.shares)]
    /\ UNCHANGED <<now, chain, config, maxRetries, retryDelay, cache, heap, proc, hist>>

ApplyCombine ==
    /\ sel.stage = "split"
    /\ sel.split.err = ""
    /\ \E s \in Selections(Len(sel.split.Shards)), d \in BOOLEAN :
         LET given == [i \in DOMAIN s |->
                          IF d /\ i = 1
                          THEN SubSeq(sel.split.Shards[s[i]], 1,
                                      Len(sel.split.Shards[s[i]]) - 1)
                          ELSE sel.split.Shards[s[i]]]
         IN  sel' = [sel EXCEPT !.stage = "combined", !.picked = s, !.damaged = d,
                                !.combined = CombineShards(given)]
    /\ UNCHANGED <<now, chain, config, maxRetries, retryDelay, cache, heap, proc, hist>>

NextShard == ApplySplit \/ ApplyCombine

SpecShard ==
    /\ now = 0
    /\ chain = [unspent |-> {}, spent |-> {}, sent |-> {}]
    /\ cache = [a \in Addrs |-> NoObj]
    /\ heap = [o \in ObjIds |-> Free]
    /\ proc = [p \in Procs |-> IdleProc]
    /\ hist = [a \in Addrs |-> None]
    /\ maxRetries = 3
    /\ retryDelay = 1
    /\ config = getDefaultConfig
    /\ \E m \in ValidMnemonics \cup {<<>>, <<97, 98>>}, t \in 0 .. MaxShares,
          n \in 0 .. MaxShares \cup {MaxSharesAllowed, MaxSharesAllowed + 1} :
         sel = [stage |-> "in", mnemonic |-> m, threshold |-> t, shares |-> n,
                split |-> None, picked |-> <<>>, damaged |-> FALSE,
                combined |-> None]
    /\ [][NextShard]_vars

(***************************************************************************)
(* Plain (unbounded) sums used to state the claims.                        *)
(***************************************************************************)
RECURSIVE PlainSum(_)
PlainSum(s) == IF s = <<>> THEN 0 ELSE s[1].value + PlainSum(Tail(s))

ChangeOutputs(outs) == SelectSeq(outs, LAMBDA o : o.kind = "change")

(***************************************************************************)
(* C1: whenever SelectUTXOs succeeds, the values of the returned outputs   *)
(* sum to at least amount + returned fee, and without the last-added       *)
(* output they sum to less than amount + returned fee.                     *)
(***************************************************************************)
C1_GreedyPrefixMinimal ==
    (sel # None /\ sel.stage # "in" /\ sel.select.err = "") =>
        LET r == sel.select
            n == Len(r.utxos)
        IN  /\ n >= 1
            /\ PlainSum(r.utxos) >= sel.params.Amount + r.fee
            /\ PlainSum(SubSeq(r.utxos, 1, n - 1)) < sel.params.Amount + r.fee

\* a selection that needed two outputs
C1_Witness ==
    /\ sel # None
    /\ sel.stage # "in"
    /\ sel.select.err = ""
    /\ Len(sel.select.utxos) = 2

(***************************************************************************)
(* C2 as stated: change below the dust threshold gives no change output,   *)
(* change at or above it gives exactly one change output of that value     *)
(* paid to the sender.                                                     *)
(***************************************************************************)
C2_ChangeAtOrAboveDust ==
    (sel # None /\ sel.stage = "built" /\ sel.build.err = "") =>
        LET b == sel.build
            c == PlainSum(b.inputs) - sel.params.Amount - b.fee
            ch == ChangeOutputs(b.outs)
        IN  IF c < config.tx.DustLimit
            THEN Len(ch) = 0
            ELSE ch = <<[value |-> c, kind |-> "change", to |-> sel.params.From, data |-> <<>>]>>

(***************************************************************************)
(* C2 amended: change at or below the dust threshold gives no change       *)
(* output and the excess stays with the fee (the outputs sum to the        *)
(* amount); change above it gives exactly one change output of value       *)
(* V - A - F, paid to the sender, placed last.                             *)
(***************************************************************************)
C2_ChangeAboveDust ==
    (sel # None /\ sel.stage = "built" /\ sel.build.err = "") =>
        LET b == sel.build
            c == PlainSum(b.inputs) - sel.params.Amount - b.fee
            ch == ChangeOutputs(b.outs)
        IN  IF c <= config.tx.DustLimit
            THEN /\ Len(ch) = 0
                 /\ PlainSum(b.outs) = sel.params.Amount
            ELSE /\ ch = <<[value |-> c, kind |-> "change", to |-> sel.params.From, data |-> <<>>]>>
                 /\ b.outs[Len(b.outs)].kind = "change"
                 /\ PlainSum(b.outs) = sel.params.Amount + c

\* a built transaction whose change equals the dust threshold exactly
C2_Witness ==
    /\ sel # None
    /\ sel.stage = "built"
    /\ sel.build.err = ""
    /\ config.tx.DustLimit > 0
    /\ PlainSum(sel.build.inputs) - sel.params.Amount - sel.build.fee = config.tx.DustLimit

(***************************************************************************)
(* C9: makeRequest issues at most maxRetries attempts; after the k-th      *)
(* failed attempt with k < maxRetries it sleeps retryDelay * k and the     *)
(* next attempt is not issued earlier; it does not sleep after the final   *)
(* attempt; no attempt follows a successful one; and when all attempts     *)
(* fail, the error of the last attempt is returned.                        *)
(***************************************************************************)
FailedAttempts(outcomes) == {i \in DOMAIN outcomes : outcomes[i] \in FailKinds}

C9_BoundedLinearBackoff ==
    \A p \in Procs :
        LET r == proc[p]
            n == Len(r.outcomes)
            sleeps == {i \in FailedAttempts(r.outcomes) : i < maxRetries}
        IN  /\ n <= maxRetries
            /\ \A i \in 1 .. n - 1 : r.outcomes[i] \in FailKinds
            /\ r.pc = "REQ" => FailedAttempts(r.outcomes) = DOMAIN r.outcomes
            /\ DOMAIN r.slept = sleeps
            /\ \A k \in DOMAIN r.slept : r.slept[k] = retryDelay * k
            /\ DOMAIN r.gaps = 1 .. n - 1
            /\ \A k \in 1 .. n - 1 : r.gaps[k] >= retryDelay * k
            /\ (r.pc # "REQ" /\ n >= 1 /\ r.outcomes[n] \in FailKinds) =>
                   /\ n = maxRetries
                   /\ r.pc \in {"done", "B_calc"}
                   /\ IF r.pc = "done" THEN r.err = r.outcomes[n]
                                       ELSE r.gerr = r.outcomes[n]
            /\ (r.pc # "REQ" /\ n >= 1 /\ r.outcomes[n] = "ok" /\ r.pc # "done") =>
                   r.gerr = NoErr /\ r.err = NoErr

\* three attempts failed, two sleeps of 1 and 2 were taken, the last error is returned
C9_Witness ==
    /\ retryDelay = 1
    /\ proc["p1"].pc = "done"
    /\ Len(proc["p1"].outcomes) = 3
    /\ proc["p1"].outcomes[1] # proc["p1"].outcomes[3]
    /\ proc["p1"].slept = <<1, 2>>
    /\ proc["p1"].err = proc["p1"].outcomes[3]

(***************************************************************************)
(* C3: in SignAndSendTransaction (and BuildTransaction) the steps run in   *)
(* the order validate, resolve sender, select inputs (a cache read or a    *)
(* fetch), assemble outputs, sign, broadcast, synthesize result; a         *)
(* broadcast request is issued only after every earlier step succeeded,    *)
(* and a call in which an earlier step fails returns the error without     *)
(* ever issuing one.                                                       *)
(***************************************************************************)
PipelineOrder ==
    <<"validate", "resolve", "select", "outputs", "sign", "broadcast", "result">>

TxOps == {"BuildTransaction", "SignAndSendTransaction"}

IsPrefix(s, t) == Len(s) <= Len(t) /\ s = SubSeq(t, 1, Len(s))

C3_Witness ==
    /\ proc["p1"].op = "SignAndSendTransaction"
    /\ proc["p1"].pc = "done"
    /\ proc["p1"].failedAt = "select"
    /\ proc["p1"].nreq >= 1

C4_SingleBroadcast ==
    \A p \in Procs :
        LET r == proc[p]
        IN  /\ r.nbcast <= 1
            /\ r.failedAt = "broadcast" =>
                   /\ r.pc = "done"
                   /\ r.nbcast = 1
                   /\ r.result = None
                   /\ r.err \in {"broadcast failed with status", "failed to send request"}
                   /\ r.err = "broadcast failed with status" => r.diag = "response body"

\* a submission answered with a non-200 status
C4_Witness ==
    /\ proc["p1"].pc = "done"
    /\ proc["p1"].failedAt = "broadcast"
    /\ proc["p1"].err = "broadcast failed with status"

(***************************************************************************)
(* C10: parameters with an empty sender, recipient or credential, a        *)
(* non-positive amount, a positive fee rate outside the configured bounds  *)
(* or an invalid token transfer are rejected by validateParams, and a call *)
(* rejected by validateParams returns before any network request, any      *)
(* selection and any cache modification.                                   *)
(***************************************************************************)
ListedRejection(ps, txConfig) ==
    \/ ps.From = ""
    \/ ps.To = ""
    \/ ps.Amount <= 0
    \/ ps.PrivateKey = ""
    \/ ps.FeeRate > 0 /\ (ps.FeeRate < txConfig.MinFeeRate \/ ps.FeeRate > txConfig.MaxFeeRate)
    \/ \E i \in DOMAIN ps.TokenTransfers :
           \/ ps.TokenTransfers[i].TokenID = ""
           \/ ps.TokenTransfers[i].To = ""
           \/ ps.TokenTransfers[i].Amount <= 0

C10_ValidationFirst ==
    \A p \in Procs :
        LET r == proc[p]
        IN  (r.pc = "done" /\ r.op \in TxOps) =>
              /\ ListedRejection(r.params, config.tx) => r.err \in ValidationErrors
              /\ r.err \in ValidationErrors =>
                     /\ r.trace = <<"validate">>
                     /\ r.nreq = 0
                     /\ r.nbcast = 0
                     /\ ~r.wrote
                     /\ ~r.ghit
                     /\ r.selected = <<>>

\* a rejected call made while the cache holds an entry of the sender
C10_Witness ==
    /\ proc["p1"].pc = "done"
    /\ proc["p1"].err = "amount must be positive"
    /\ cache["a1"] # NoObj

(***************************************************************************)
(* C5: with caching enabled, once a GetUTXOs fetch of an address has       *)
(* completed, every GetUTXOs of that address that looks the cache up       *)
(* within the lifetime counted from that fetch, with no invalidation in    *)
(* between, returns the list that first fetch returned and issues no       *)
(* request.                                                                *)
(***************************************************************************)
C5_Lookup(p) ==
    LET r == proc[p]
        f == FirstAt(r.addr, now)
    IN  (/\ r.op = "GetUTXOs"
         /\ r.pc = "G_cache"
         /\ proc'[p] # r
         /\ config.utxo.EnableCaching
         /\ f # None) =>
            /\ proc'[p].pc = "done"
            /\ proc'[p].err = NoErr
            /\ proc'[p].nreq = 0
            /\ proc'[p].utxos = f.utxos

C5_CacheIdempotence == [][\A p \in Procs : C5_Lookup(p)]_vars

(***************************************************************************)
(* C6: a GetUTXOs or GetEnhancedBalance that finds an entry whose lifetime *)
(* has elapsed is never served from the cache; when it succeeds it has     *)
(* issued a request, every output list it fetched was stored as a new      *)
(* entry holding exactly the returned list and the time of the store, and  *)
(* on its return the entry of the address (unless invalidated meanwhile)   *)
(* carries a timestamp not older than the moment the stale entry was       *)
(* found.  Retry budgets of at least one.                                  *)
(***************************************************************************)
C6_NeverStale ==
    \A p \in Procs :
        LET r == proc[p]
        IN  r.stale =>
              /\ r.op = "GetUTXOs" => ~r.ghit
              /\ r.op = "GetEnhancedBalance" => ~r.bhit
              /\ (r.pc = "done" /\ r.err = NoErr) => (r.nreq >= 1 /\ r.wrote)

C6_Refresh(p) ==
    LET r == proc[p]
        r2 == proc'[p]
    IN  /\ (r.pc = "G_set" /\ r2.pc # "G_set") =>
              /\ r2.utxos = ConvertResponses(r.resp, <<>>, r.gcfg)
              /\ cache'[r.addr] # NoObj
              /\ heap'[cache'[r.addr]] = NewEntry(r2.utxos, None, now)
        /\ (r.stale /\ r.pc # "done" /\ r2.pc = "done" /\ r2.err = NoErr) =>
              \/ cache'[r.addr] = NoObj
              \/ /\ heap'[cache'[r.addr]].ts >= r.tissue
                 /\ ~TTLElapsed(heap'[cache'[r.addr]].ts, config.utxo, r.tissue)
                 /\ (r2.op = "GetEnhancedBalance" /\ r.pc = "B_set") =>
                        heap'[cache'[r.addr]].balance = r2.bal
                 /\ (r2.op = "GetEnhancedBalance" /\ r.pc = "B_write"
                     /\ cache'[r.addr] = r.ptr) =>
                        heap'[cache'[r.addr]].balance = r2.bal

C6_CacheExpiry == []C6_NeverStale /\ [][\A p \in Procs : C6_Refresh(p)]_vars

\* a GetUTXOs that found a stale entry has returned the list it fetched afresh, which
\* now is the entry of the address, stamped with the current time
C6_Witness ==
    /\ proc["p1"].pc = "done"
    /\ proc["p1"].op = "GetUTXOs"
    /\ proc["p1"].stale
    /\ proc["p1"].err = NoErr
    /\ Len(proc["p1"].utxos) = 2
    /\ cache["a1"] # NoObj
    /\ heap[cache["a1"]] = NewEntry(proc["p1"].utxos, None, now)

(***************************************************************************)
(* C7: no caller writes a field of a published entry while another caller  *)
(* holds that entry for reading or writing outside the lock, and no        *)
(* published entry pairs an output list with a balance snapshot that was   *)
(* computed from a different output list.                                  *)
(***************************************************************************)
C7_NoUnlockedWrite ==
    \A p, q \in Procs :
        (p # q /\ proc[p].pc = "B_write") =>
            ~(proc[q].pc \in {"B_read", "B_write"} /\ proc[q].ptr = proc[p].ptr)

C7_NoMixedEntry ==
    \A a \in Addrs :
        cache[a] # NoObj =>
            LET e == heap[cache[a]]
            IN  (e.balance # None /\ e.utxos # <<>>) =>
                    e.balance.Native.UTXOCount = Len(e.utxos)

C7_LinearizableCache == C7_NoUnlockedWrite /\ C7_NoMixedEntry

(***************************************************************************)
(* C8: while caching is disabled a cache lookup reports absent, a cache    *)
(* store leaves the map unchanged, and a fetch returns what it returns     *)
(* with caching enabled and no entry: the converted remote response.       *)
(***************************************************************************)
C8_Step(p) ==
    LET r == proc[p]
        r2 == proc'[p]
    IN  (~config.utxo.EnableCaching /\ r2 # r) =>
            /\ r.pc = "G_cache" => (r2.pc = "G_cfg" /\ ~r2.ghit)
            /\ r.pc = "B_cache" => (r2.pc = "B_cfg" /\ ~r2.bhit)
            /\ r.pc = "B_calc" => r2.pc # "B_write"
            /\ r.pc \in {"G_set", "B_set"} => cache' = cache /\ heap' = heap
            /\ r.pc = "G_set" =>
                   r2.utxos = ConvertResponses(r.resp, <<>>,
                                               [r.gcfg EXCEPT !.EnableCaching = TRUE])
            /\ (r.pc = "B_calc" /\ r.gerr = NoErr) =>
                   r2.bal = EnhancedBalance(r.balResp, r.utxos,
                                            [r.bcfg EXCEPT !.EnableCaching = TRUE])

C8_CachingOffEquivalent == [][\A p \in Procs : C8_Step(p)]_vars

\* caching is off, the map still holds a live entry from before, and a GetUTXOs has
\* returned a freshly fetched list that differs from that entry
C8_Witness ==
    /\ ~config.utxo.EnableCaching
    /\ cache["a1"] # NoObj
    /\ ~TTLElapsed(heap[cache["a1"]].ts, config.utxo, now)
    /\ proc["p1"].pc = "done"
    /\ proc["p1"].op = "GetUTXOs"
    /\ proc["p1"].err = NoErr
    /\ ~proc["p1"].ghit
    /\ proc["p1"].nreq = 1
    /\ proc["p1"].utxos # heap[cache["a1"]].utxos

(***************************************************************************)
(* C11 as stated: a BuildTransaction / SignAndSendTransaction call whose   *)
(* fee rate is 0 returns a validation error, and no selection takes place. *)
(***************************************************************************)
C11_ZeroFeeRateRejected ==
    \A p \in Procs :
        LET r == proc[p]
        IN  (r.op \in TxOps /\ r.params.FeeRate = 0 /\ Len(r.trace) >= 1) =>
              /\ r.pc = "done"
              /\ r.err \in ValidationErrors
              /\ r.trace = <<"validate">>
              /\ r.selected = <<>>

(***************************************************************************)
(* C11 amended: a fee rate of 0 is not rejected by validateParams; it is   *)
(* replaced by the configured default fee rate, a call whose other         *)
(* parameters are valid goes on past validation, and a selection that      *)
(* succeeds returns the fee of its inputs at the default fee rate.         *)
(***************************************************************************)
C11_ZeroFeeRateDefaulted ==
    \A p \in Procs :
        LET r == proc[p]
        IN  (r.op \in TxOps /\ r.params.FeeRate = 0 /\ Len(r.trace) >= 1) =>
              /\ r.err \notin {"fee rate is below minimum", "fee rate exceeds maximum"}
              /\ ~ListedRejection(r.params, config.tx) => r.failedAt # "validate"
              /\ r.pc # "done" => r.feeRate = config.tx.DefaultFeeRate
              /\ (Len(r.trace) >= 3 /\ r.failedAt # "select"
                  /\ r.params.TokenTransfers = <<>>) =>
                     /\ Len(r.selected) >= 1
                     /\ r.fee = (BaseSize + Len(r.selected) * InputSize + 2 * OutputSize)
                                * config.tx.DefaultFeeRate

\* a call with fee rate 0 that was sent and reported its result
C11_Witness ==
    /\ proc["p1"].op = "SignAndSendTransaction"
    /\ proc["p1"].pc = "done"
    /\ proc["p1"].params.FeeRate = 0
    /\ proc["p1"].err = ""
    /\ proc["p1"].trace = PipelineOrder
    /\ proc["p1"].fee > 0

(***************************************************************************)
(* C12: SelectUTXOs called with a fee rate above the configured maximum    *)
(* fails with the fee-rate-out-of-range error, whatever outputs the        *)
(* address has (none, or none matching the inclusion policy, included).    *)
(***************************************************************************)
C12_FeeRateCheckedFirst ==
    (sel # None /\ sel.stage # "in" /\ sel.params.FeeRate > config.tx.MaxFeeRate) =>
        sel.select.err = "fee_rate_exceeds_max"

(***************************************************************************)
(* C13: SelectUTXOs called with a fee rate below the configured minimum    *)
(* raises no error for the rate and selects as it does at the configured   *)
(* default fee rate: the same outcome, selected outputs and fee; the       *)
(* returned fee is the fee of the selected inputs at the default rate, the *)
(* selected prefix is the first one funded at the default rate, and a      *)
(* failure for lack of funds means no prefix is funded at the default rate.*)
(***************************************************************************)
SortedCandidates == sortUTXOsByValue(FilterByInclusion(sel.utxos, config.tx))

FeeAt(n, rate) == (BaseSize + n * InputSize + 2 * OutputSize) * rate

FundedAt(k, rate) ==
    PlainSum(SubSeq(SortedCandidates, 1, k)) >= sel.params.Amount + FeeAt(k, rate)

C13_LowFeeRateDefaulted ==
    (sel # None /\ sel.stage # "in" /\ sel.params.FeeRate < config.tx.MinFeeRate) =>
        LET r == sel.select
            d == config.tx.DefaultFeeRate
            atDefault == SelectUTXOs(sel.utxos, sel.params.Amount, d, config.tx)
            n == Len(r.utxos)
        IN  /\ r.err = atDefault.err
            /\ r.utxos = atDefault.utxos
            /\ r.fee = atDefault.fee
            /\ r.err = "" =>
                   /\ r.utxos = SubSeq(SortedCandidates, 1, n)
                   /\ r.fee = FeeAt(n, d)
                   /\ FundedAt(n, d)
                   /\ \A k \in 1 .. n - 1 : ~FundedAt(k, d)
            /\ r.err = "insufficient_funds" =>
                   \A k \in 1 .. Len(SortedCandidates) : ~FundedAt(k, d)

\* a fee rate of 1 below a minimum of 2: two outputs are needed at the default rate 2
\* (1000 < 1000 + 452, 1526 >= 1000 + 748) where one would do at rate 1 only if funded
C13_Witness ==
    /\ sel # None
    /\ sel.stage # "in"
    /\ sel.params.FeeRate = 1
    /\ config.tx.MinFeeRate = 2
    /\ sel.select.err = ""
    /\ Len(sel.select.utxos) = 2
    /\ sel.select.fee = 748

(***************************************************************************)
(* C14: when no prefix of the sorted candidates is funded, SelectUTXOs     *)
(* fails with an insufficient-funds error that reports as available the    *)
(* total value of all candidates and as needed the amount plus the fee at  *)
(* the fee rate the funding check used.                                    *)
(***************************************************************************)
C14_InsufficientFundsReport ==
    (sel # None /\ sel.stage # "in" /\ sel.select.err = "insufficient_funds") =>
        LET used == IF sel.params.FeeRate < config.tx.MinFeeRate
                    THEN config.tx.DefaultFeeRate ELSE sel.params.FeeRate
        IN  /\ sel.select.have = PlainSum(SortedCandidates)
            /\ sel.select.need = sel.params.Amount + FeeAt(Len(SortedCandidates), used)

(***************************************************************************)
(* C15: when the address the credential resolves to differs from the       *)
(* declared sender, BuildTransaction (and SignAndSendTransaction) fails    *)
(* with the sender-mismatch error right after resolving the sender: no     *)
(* request, no cache read or write, no selection, no outputs, no signing   *)
(* and no broadcast take place in that call.                               *)
(***************************************************************************)
C15_SenderMismatch ==
    \A p \in Procs :
        LET r == proc[p]
        IN  (/\ r.op \in TxOps
             /\ Len(r.trace) >= 2
             /\ r.params.PrivateKey \in DOMAIN KeyAddress
             /\ KeyAddress[r.params.PrivateKey] # r.params.From) =>
                /\ r.pc = "done"
                /\ r.err = "sender address mismatch"
                /\ r.failedAt = "resolve"
                /\ r.trace = <<"validate", "resolve">>
                /\ r.nreq = 0
                /\ ~r.ghit
                /\ ~r.wrote
                /\ r.selected = <<>>
                /\ r.tx = <<>>
                /\ r.nbcast = 0
                /\ r.result = None

\* a call whose credential resolves to another address, made while the declared
\* sender has spendable outputs in the cache
C15_Witness ==
    /\ proc["p1"].pc = "done"
    /\ proc["p1"].op = "SignAndSendTransaction"
    /\ proc["p1"].params.PrivateKey = "k2"
    /\ proc["p1"].params.From = "a1"
    /\ proc["p1"].err = "sender address mismatch"
    /\ cache["a1"] # NoObj

(***************************************************************************)
(* C16: a GetUTXOs or GetEnhancedBalance call decides everything by the    *)
(* configuration it read at its start (cfg0): the configuration it reads   *)
(* later is that one, the response is filtered by it, the result is stored *)
(* exactly when it enables caching, and the inner cache lookups follow it, *)
(* whatever configuration update commits while the call is in flight.      *)
(***************************************************************************)
C16_Step(p) ==
    LET r == proc[p]
        r2 == proc'[p]
        found == getFromCache(r.addr, r.cfg0, cache, heap, now)
    IN  (r.cfg0 # None /\ r2 # r) =>
            /\ r.pc = "G_cfg" => r2.gcfg = r.cfg0
            /\ r.pc = "B_cfg" => r2.bcfg = r.cfg0
            /\ r.pc = "G_set" =>
                   /\ r2.utxos = ConvertResponses(r.resp, <<>>, r.cfg0)
                   /\ IF r.cfg0.EnableCaching
                      THEN /\ cache'[r.addr] # NoObj
                           /\ heap'[cache'[r.addr]] = NewEntry(r2.utxos, None, now)
                      ELSE cache' = cache
            /\ (r.pc = "G_cache" /\ r.op = "GetEnhancedBalance") =>
                   r2.ghit = (found # NoObj)
            /\ (r.pc = "B_calc" /\ r.gerr = NoErr) =>
                   r2.pc = IF ~r.cfg0.EnableCaching THEN "done"
                           ELSE IF found # NoObj THEN "B_write" ELSE "B_set"

C16_ConfigSnapshot == [][\A p \in Procs : C16_Step(p)]_vars

(***************************************************************************)
(* C17: every balance snapshot GetEnhancedBalance returns, computed afresh *)
(* or served from the cache, has total = confirmed + unconfirmed (int64    *)
(* addition) for the native aggregate and for every per-token aggregate;   *)
(* GetNativeBalance and GetNonNativeBalance return its two parts.          *)
(***************************************************************************)
BalanceSumsUp(b) ==
    /\ b.Native.Total = Add64(b.Native.Confirmed, b.Native.Unconfirmed)
    /\ b.Total = b.Native.Total
    /\ \A t \in DOMAIN b.NonNative.Tokens :
           b.NonNative.Tokens[t].Total =
               Add64(b.NonNative.Tokens[t].Confirmed, b.NonNative.Tokens[t].Unconfirmed)

C17_BalanceInvariant ==
    /\ (sel # None /\ sel.stage = "out") => BalanceSumsUp(sel.balance)
    /\ \A p \in Procs :
           (proc[p].op = "GetEnhancedBalance" /\ proc[p].pc = "done"
            /\ proc[p].err = NoErr) => BalanceSumsUp(proc[p].bal)
    /\ \A o \in ObjIds :
           (heap[o] # Free /\ heap[o].balance # None) => BalanceSumsUp(heap[o].balance)

\* a snapshot with a token that has confirmed and unconfirmed outputs
C17_Witness ==
    /\ sel # None
    /\ sel.stage = "out"
    /\ "T" \in DOMAIN sel.balance.NonNative.Tokens
    /\ sel.balance.NonNative.Tokens["T"].Confirmed = 10
    /\ sel.balance.NonNative.Tokens["T"].Unconfirmed = 5
    /\ sel.balance.Native.Total = 1300

\* a snapshot served from the cache
C17_WitnessCached ==
    /\ proc["p1"].pc = "done"
    /\ proc["p1"].bhit
    /\ proc["p1"].bal.Native.Total = 1526

(***************************************************************************)
(* C18: on a cache miss GetUTXOs returns, in the order of the response,    *)
(* the first MaxUTXOsPerQuery of the response's outputs whose confirmation *)
(* count is at least MinConfirmations.                                     *)
(***************************************************************************)
C18_Step(p) ==
    LET r == proc[p]
        r2 == proc'[p]
        eligible == SelectSeq(r.resp,
                              LAMBDA x : x.confirmations >= r.gcfg.MinConfirmations)
        n == IF Len(eligible) < r.gcfg.MaxUTXOsPerQuery
             THEN Len(eligible) ELSE r.gcfg.MaxUTXOsPerQuery
    IN  (r.pc = "G_set" /\ r2 # r) =>
            /\ ~r2.ghit
            /\ r2.err = NoErr
            /\ Len(r2.utxos) = n
            /\ \A i \in 1 .. n :
                   /\ r2.utxos[i].txid = eligible[i].txid
                   /\ r2.utxos[i].value = eligible[i].value
                   /\ r2.utxos[i].confirmations = eligible[i].confirmations

C18_FilterAndCap == [][\A p \in Procs : C18_Step(p)]_vars

\* the response held four outputs; the unconfirmed one was dropped and the cap of two
\* cut the last one
C18_Witness ==
    /\ proc["p1"].pc = "done"
    /\ proc["p1"].op = "GetUTXOs"
    /\ ~proc["p1"].ghit
    /\ proc["p1"].nreq = 1
    /\ config.utxo.MinConfirmations = 1
    /\ config.utxo.MaxUTXOsPerQuery = 2
    /\ chain.unspent = {1, 2, 3, 4, 5}
    /\ Len(proc["p1"].utxos) = 2
    /\ proc["p1"].utxos[1].txid = 1
    /\ proc["p1"].utxos[2].txid = 2
    /\ cache["a1"] # NoObj
    /\ heap[cache["a1"]].ts = now

\* a returned list in response order that is not in value order
C18_WitnessOrder ==
    /\ proc["p1"].pc = "done"
    /\ ~proc["p1"].ghit
    /\ Len(proc["p1"].utxos) = 4
    /\ proc["p1"].utxos[3].value = 300
    /\ proc["p1"].utxos[4].value = 700

(***************************************************************************)
(* C19: the fee of a built transaction is (base + inputs x input size +    *)
(* outputs x output size) x fee rate, inputs and outputs being the numbers *)
(* of inputs and of outputs (payment, token markers, data, change) of that *)
(* transaction.                                                            *)
(***************************************************************************)
C19_FeeOfBuiltTransaction ==
    (sel # None /\ sel.stage = "built" /\ sel.build.err = "") =>
        LET b == sel.build
            given == IF sel.params.FeeRate <= 0 THEN config.tx.DefaultFeeRate
                     ELSE sel.params.FeeRate
            rate == IF given < config.tx.MinFeeRate THEN config.tx.DefaultFeeRate
                    ELSE given
        IN  b.fee = (BaseSize + Len(b.inputs) * InputSize + Len(b.outs) * OutputSize) * rate

(***************************************************************************)
(* C20: an entry is valid only while now - timestamp < ttl: a lookup that  *)
(* finds an entry whose age has reached the configured lifetime (any entry *)
(* when the lifetime is 0) treats it as absent and goes on to fetch.       *)
(***************************************************************************)
C20_Step(p) ==
    LET r == proc[p]
        r2 == proc'[p]
    IN  (/\ r.pc = "G_cache"
         /\ r2 # r
         /\ cache[r.addr] # NoObj
         /\ now - heap[cache[r.addr]].ts >= config.utxo.CacheExpiry) =>
            /\ r2.pc = "G_cfg"
            /\ ~r2.ghit

C20_ValidWhileYounger == [][\A p \in Procs : C20_Step(p)]_vars

(***************************************************************************)
(* C21: every write that changes the output list or the balance snapshot   *)
(* of the entry of an address (a new entry stored, or a field of the       *)
(* published entry assigned) leaves that entry with the time of the write  *)
(* as its timestamp.                                                       *)
(***************************************************************************)
C21_Step(a) ==
    (/\ cache'[a] # NoObj
     /\ \/ cache[a] = NoObj
        \/ heap'[cache'[a]].utxos # heap[cache[a]].utxos
        \/ heap'[cache'[a]].balance # heap[cache[a]].balance) =>
        heap'[cache'[a]].ts = now

C21_WritesRefreshTimestamp == [][\A a \in Addrs : C21_Step(a)]_vars

(***************************************************************************)
(* C22: ClearCacheForAddress(a) leaves a without an entry and the entry of *)
(* every other address as it was; ClearCache leaves every address without  *)
(* an entry; a GetUTXOs that looks up an address without an entry is not   *)
(* served from the cache, and when it succeeds it has issued a request.    *)
(***************************************************************************)
C22_Step(p) ==
    LET r == proc[p]
        r2 == proc'[p]
    IN  /\ (r2 # r /\ r2.pc = "done" /\ r2.op = "ClearCacheForAddress") =>
              /\ cache'[r2.addr] = NoObj
              /\ \A b \in Addrs \ {r2.addr} :
                     /\ cache'[b] = cache[b]
                     /\ cache[b] # NoObj => heap'[cache'[b]] = heap[cache[b]]
        /\ (r2 # r /\ r2.pc = "done" /\ r2.op = "ClearCache") =>
              \A a \in Addrs : cache'[a] = NoObj
        /\ (r2 # r /\ r.pc = "G_cache" /\ cache[r.addr] = NoObj) =>
              /\ r2.pc = "G_cfg"
              /\ ~r2.ghit

C22_FetchedAfterMiss ==
    \A p \in Procs :
        (proc[p].op = "GetUTXOs" /\ proc[p].pc = "done" /\ proc[p].err = NoErr
         /\ ~proc[p].ghit) => proc[p].nreq >= 1

C22_WitnessRefetch ==
    /\ proc["p2"].pc = "done"
    /\ proc["p2"].op = "ClearCache"
    /\ proc["p1"].pc = "done"
    /\ proc["p1"].op = "GetUTXOs"
    /\ proc["p1"].addr = "a1"
    /\ ~proc["p1"].ghit
    /\ proc["p1"].nreq = 1
    /\ cache["a1"] # NoObj
    /\ heap[cache["a1"]] = NewEntry(proc["p1"].utxos, None, now)
    /\ cache["a2"] = NoObj

(***************************************************************************)
(* C23: SelectUTXOsForTokenTransfer fails with the insufficient-token-     *)
(* balance error, reporting the requested amount and the total of the      *)
(* matching token outputs, when that total is below the requested amount   *)
(* (whatever the native outputs are); it fails with the other error,       *)
(* insufficient native balance for fees, reporting the estimated fee and   *)
(* the total of the native outputs, when the token amount is covered and   *)
(* the native total is below the estimated fee; otherwise it succeeds.     *)
(***************************************************************************)
RECURSIVE PlainTokenSum(_)
PlainTokenSum(s) == IF s = <<>> THEN 0 ELSE s[1].tokenAmount + PlainTokenSum(Tail(s))

C23_TokenShortfallFirst ==
    (sel # None /\ sel.stage = "tokens") =>
        LET r == sel.token
            want == sel.params.TokenTransfers[1]
            matching == SelectSeq(sel.utxos,
                                  LAMBDA u : ~u.isNative /\ u.tokenID = want.TokenID)
            natives == SelectSeq(sel.utxos, LAMBDA u : u.isNative)
            sorted == sortUTXOsByTokenAmount(matching)
            covers(k) == PlainTokenSum(SubSeq(sorted, 1, k)) >= want.Amount
            k == CHOOSE n \in 0 .. Len(sorted) :
                     covers(n) /\ \A j \in 0 .. n - 1 : ~covers(j)
            fee == FeeAt(k, sel.params.FeeRate)
        IN  IF PlainTokenSum(matching) < want.Amount
            THEN /\ r.err = "insufficient_token_balance"
                 /\ r.need = want.Amount
                 /\ r.have = PlainTokenSum(matching)
            ELSE IF PlainSum(natives) < fee
                 THEN /\ r.err = "insufficient_native_for_fees"
                      /\ r.need = fee
                      /\ r.have = PlainSum(natives)
                 ELSE /\ r.err = ""
                      /\ r.fee = fee

\* the token amount is covered by two outputs and the native outputs do not pay the fee
C23_Witness ==
    /\ sel # None
    /\ sel.stage = "tokens"
    /\ sel.token.err = "insufficient_native_for_fees"
    /\ sel.token.need = 374
    /\ sel.token.have = 300

\* both shortfalls at once: outputs of another token only, and no native output
C23_WitnessBoth ==
    /\ sel # None
    /\ sel.stage = "tokens"
    /\ Len(sel.utxos) = 2
    /\ \A i \in DOMAIN sel.utxos : sel.utxos[i].tokenID = "U"
    /\ sel.params.FeeRate > 0
    /\ sel.token.err = "insufficient_token_balance"
    /\ sel.token.have = 0

(***************************************************************************)
(* C24: an update of the configuration with an invalid argument (nil, a    *)
(* negative MinConfirmations or CacheExpiry, a non-positive                *)
(* MaxUTXOsPerQuery, fee rate or MaxTransactionSize, MinFeeRate above      *)
(* MaxFeeRate, a negative DustLimit, an empty network name, RPC URL,       *)
(* explorer URL or chain id) and a SetNetworkType with a type other than   *)
(* mainnet or testnet return an error; a call that returns an error leaves *)
(* the stored configuration as it was, and every getter returns what is    *)
(* stored, so the getters return after the call what they returned before. *)
(***************************************************************************)
InvalidNetwork(n) ==
    n = Nil \/ n.Name = "" \/ n.RPCURL = "" \/ n.ExplorerURL = "" \/ n.ChainID = ""

InvalidUTXO(u) ==
    u = Nil \/ u.MinConfirmations < 0 \/ u.CacheExpiry < 0 \/ u.MaxUTXOsPerQuery <= 0

InvalidTransaction(t) ==
    \/ t = Nil
    \/ t.DefaultFeeRate <= 0 \/ t.MinFeeRate <= 0 \/ t.MaxFeeRate <= 0
    \/ t.MaxTransactionSize <= 0
    \/ t.MinFeeRate > t.MaxFeeRate
    \/ t.DustLimit < 0

InvalidArgument(op, arg) ==
    IF op = "UpdateUTXOConfig" THEN InvalidUTXO(arg)
    ELSE IF op = "UpdateTransactionConfig" THEN InvalidTransaction(arg)
    ELSE IF op = "UpdateNetworkConfig" THEN InvalidNetwork(arg)
    ELSE IF op = "UpdateConfig"
         THEN \/ arg = Nil
              \/ InvalidNetwork(arg.Network)
              \/ InvalidUTXO(arg.UTXO)
              \/ InvalidTransaction(arg.Transaction)
    ELSE arg.Type \notin {"mainnet", "testnet"}

ConfigUpdateOps ==
    {"UpdateConfig", "UpdateNetworkConfig", "UpdateUTXOConfig", "UpdateTransactionConfig",
     "SetNetworkType"}

Stored ==
    [GetConfig |-> [Network |-> config.net, UTXO |-> config.utxo, Transaction |-> config.tx],
     GetNetworkConfig |-> config.net,
     GetUTXOConfig |-> config.utxo,
     GetTransactionConfig |-> config.tx]

C24_Step(p) ==
    LET r == proc[p]
        r2 == proc'[p]
    IN  /\ (r2 # r /\ r2.pc = "done" /\ r2.op \in ConfigUpdateOps) =>
              /\ InvalidArgument(r2.op, r2.params) => r2.err # NoErr
              /\ r2.err # NoErr => config' = config
        /\ (r2 # r /\ r2.pc = "done" /\ r2.op \in DOMAIN Stored) =>
              /\ r2.result = Stored[r2.op]
              /\ config' = config

C24_RejectedUpdateKeepsConfig == [][\A p \in Procs : C24_Step(p)]_vars

\* an accepted transaction configuration is stored; an update with MinFeeRate above
\* MaxFeeRate has been rejected since, and the getter still returns the accepted one
C24_Witness ==
    /\ proc["p1"].pc = "done"
    /\ proc["p1"].op = "UpdateTransactionConfig"
    /\ proc["p1"].params # Nil
    /\ proc["p1"].params.MinFeeRate = 3
    /\ proc["p1"].err # NoErr
    /\ proc["p2"].pc = "done"
    /\ proc["p2"].op = "GetTransactionConfig"
    /\ proc["p2"].result.DefaultFeeRate = 10
    /\ proc["p2"].result = config.tx

(***************************************************************************)
(* C25: every UpdateUTXOConfig / UpdateTransactionConfig with a valid      *)
(* argument succeeds and makes that argument, field by field, the stored   *)
(* section, leaving the other sections alone; a section changes only in a  *)
(* step in which a caller's successful update of it returns, to the        *)
(* argument of that update; and every getter returns the section stored at *)
(* that moment, which is always one of the submitted configurations or the *)
(* initial one (never a mixture of two).                                   *)
(***************************************************************************)
SubmittedUTXO ==
    {getDefaultUTXOConfig} \cup {u \in UTXOConfigArgs : ~InvalidUTXO(u)}
    \cup {c.UTXO : c \in {d \in ConfigArgs : ~InvalidArgument("UpdateConfig", d)}}

SubmittedTransaction ==
    {getDefaultTransactionConfig} \cup {t \in TransactionConfigArgs : ~InvalidTransaction(t)}
    \cup {c.Transaction : c \in {d \in ConfigArgs : ~InvalidArgument("UpdateConfig", d)}}

Accepted(r, op) == r.pc = "done" /\ r.op = op /\ r.err = NoErr

C25_Step(p) ==
    LET r == proc[p]
        r2 == proc'[p]
    IN  /\ (r2 # r /\ r2.pc = "done" /\ r2.op = "UpdateUTXOConfig"
            /\ ~InvalidUTXO(r2.params)) =>
              /\ r2.err = NoErr
              /\ config' = [config EXCEPT !.utxo = r2.params]
        /\ (r2 # r /\ r2.pc = "done" /\ r2.op = "UpdateTransactionConfig"
            /\ ~InvalidTransaction(r2.params)) =>
              /\ r2.err = NoErr
              /\ config' = [config EXCEPT !.tx = r2.params]
        /\ (r2 # r /\ r2.pc = "done" /\ r2.op = "GetUTXOConfig") =>
              r2.result = config.utxo /\ r2.result \in SubmittedUTXO
        /\ (r2 # r /\ r2.pc = "done" /\ r2.op = "GetTransactionConfig") =>
              r2.result = config.tx /\ r2.result \in SubmittedTransaction
        /\ (r2 # r /\ r2.pc = "done" /\ r2.op = "GetConfig") =>
              /\ r2.result.UTXO = config.utxo
              /\ r2.result.Transaction = config.tx
              /\ r2.result.Network = config.net

C25_Frame ==
    /\ config'.utxo # config.utxo =>
           \E p \in Procs :
               \/ Accepted(proc'[p], "UpdateUTXOConfig") /\ proc'[p].params = config'.utxo
               \/ Accepted(proc'[p], "UpdateConfig") /\ proc'[p].params.UTXO = config'.utxo
    /\ config'.tx # config.tx =>
           \E p \in Procs :
               \/ Accepted(proc'[p], "UpdateTransactionConfig")
                  /\ proc'[p].params = config'.tx
               \/ Accepted(proc'[p], "UpdateConfig")
                  /\ proc'[p].params.Transaction = config'.tx

C25_LinearizableConfig == [][C25_Frame /\ \A p \in Procs : C25_Step(p)]_vars

\* p1 has committed a UTXO configuration and p2 has read exactly that one back, while an
\* updated transaction configuration is stored as well
C25_Witness ==
    /\ Accepted(proc["p1"], "UpdateUTXOConfig")
    /\ proc["p1"].params.MaxUTXOsPerQuery = 50
    /\ proc["p2"].pc = "done"
    /\ proc["p2"].op = "GetUTXOConfig"
    /\ proc["p2"].result = proc["p1"].params
    /\ config.tx.DefaultFeeRate = 10

(***************************************************************************)
(* C26: for a valid mnemonic m, a threshold t >= 2 and a number of shares  *)
(* n with t <= n <= 255, SplitMnemonic(m, t, n) returns exactly n shards   *)
(* with Threshold = t and TotalShares = n, and CombineShards applied to    *)
(* any selection of at least t of those shards returns m.                  *)
(***************************************************************************)
C26_ShardingRoundTrip ==
    (/\ sel # None
     /\ sel.stage \in {"split", "combined"}
     /\ sel.mnemonic \in ValidMnemonics
     /\ sel.threshold >= 2
     /\ sel.threshold <= sel.shares
     /\ sel.shares <= 255) =>
        /\ sel.split.err = ""
        /\ Len(sel.split.Shards) = sel.shares
        /\ sel.split.Threshold = sel.threshold
        /\ sel.split.TotalShares = sel.shares
        /\ (sel.stage = "combined" /\ ~sel.damaged
            /\ Len(sel.picked) >= sel.threshold) =>
               /\ sel.combined.err = ""
               /\ sel.combined.mnemonic = sel.mnemonic

\* three of four shards, taken out of order, give the phrase back
C26_Witness ==
    /\ sel # None
    /\ sel.stage = "combined"
    /\ sel.threshold = 3
    /\ sel.shares = 4
    /\ sel.picked = <<4, 1, 3>>
    /\ ~sel.damaged
    /\ sel.combined.err = ""
    /\ sel.combined.mnemonic = <<97, 98, 32, 99, 100>>

\* the largest number of shares: 255 shards, all of them combined
C26_WitnessMost ==
    /\ sel # None
    /\ sel.stage = "combined"
    /\ sel.shares = 255
    /\ Len(sel.split.Shards) = 255
    /\ Len(sel.picked) = 255
    /\ sel.combined.err = ""

(***************************************************************************)
(* C27: a spent output is never selected again.  Once SignAndSendTransaction *)
(* has successfully broadcast a transaction spending an output of an       *)
(* address, no later BuildTransaction or SignAndSendTransaction for that   *)
(* address selects that output as an input, also not within the lifetime   *)
(* of the cache entry that contained it.                                   *)
(***************************************************************************)
C27_Step(p) ==
    (/\ proc[p].pc = "T_selected"
     /\ proc'[p].pc = "T_outputs") =>
        InputIds(proc'[p].selected) \cap chain.sent = {}

C27_SpentNeverReselected == [][\A p \in Procs : C27_Step(p)]_vars

(***************************************************************************)
(* C28: the result of every successful SignAndSendTransaction describes    *)
(* the transaction that was broadcast: InputsUsed are exactly the outputs  *)
(* its inputs spend, Change is the value of its change output (0 when it   *)
(* has none), and Fee is the sum of the values of its inputs minus the sum *)
(* of the values of its outputs, and is not negative.                      *)
(***************************************************************************)
C28_ResultDescribesTransaction ==
    \A p \in Procs :
        LET r == proc[p]
        IN  (/\ r.op = "SignAndSendTransaction"
             /\ r.pc = "done"
             /\ r.err = NoErr
             /\ r.result # None) =>
                /\ r.result.InputsUsed = r.selected
                /\ r.result.Change = IF ChangeOutputs(r.tx) = <<>> THEN 0
                                     ELSE ChangeOutputs(r.tx)[1].value
                /\ r.result.Fee = PlainSum(r.selected) - PlainSum(r.tx)
                /\ r.result.Fee >= 0

C30_Rank(c, i) ==
    Cardinality({j \in DOMAIN c :
                    \/ c[j].value > c[i].value
                    \/ c[j].value = c[i].value /\ j < i})

C30_StableOrder(c) ==
    [k \in DOMAIN c |-> c[CHOOSE i \in DOMAIN c : C30_Rank(c, i) = k - 1]]

C30_Candidates ==
    SelectSeq(sel.utxos, LAMBDA u : IF u.isNative THEN config.tx.IncludeNativeUTXOs
                                    ELSE config.tx.IncludeNonNativeUTXOs)

C30_StablePrefix ==
    (sel # None /\ sel.stage # "in" /\ sel.select.err = "") =>
        /\ IsPrefix(sel.select.utxos, C30_StableOrder(C30_Candidates))
        /\ \A i \in DOMAIN sel.utxos : sel.utxos[i] \in {SelUTXO(k, i) : k \in SelKinds}

\* two outputs of equal value are selected, after a smaller output discovered before them
C30_Witness ==
    /\ sel # None
    /\ sel.stage = "selected"
    /\ sel.select.err = ""
    /\ Len(sel.utxos) = 3
    /\ sel.utxos[1].value < sel.utxos[2].value
    /\ sel.utxos[2].value = sel.utxos[3].value
    /\ Len(sel.select.utxos) = 2
    /\ sel.select.utxos[1] = sel.utxos[2]
    /\ sel.select.utxos[2] = sel.utxos[3]

(***************************************************************************)
(* C31: the outputs of a built transaction are, in this order: the payment *)
(* of value Amount to the recipient, exactly one zero-value marker output  *)
(* per token transfer in list order, exactly one zero-value data output    *)
(* per requested payload in list order, and the change output (if any)     *)
(* last; the number of outputs is 1 + |TokenTransfers| + |DataOutputs|,    *)
(* plus 1 when there is a change output.                                   *)
(***************************************************************************)
C31_OutputOrder ==
    (sel # None /\ sel.stage \in {"built", "tokens"} /\ sel.build.err = "") =>
        LET outs == sel.build.outs
            tr == sel.params.TokenTransfers
            da == sel.params.DataOutputs
            fixed == 1 + Len(tr) + Len(da)
        IN  /\ Len(outs) = fixed + Len(ChangeOutputs(outs))
            /\ Len(ChangeOutputs(outs)) <= 1
            /\ outs[1].kind = "payment"
            /\ outs[1].value = sel.params.Amount
            /\ outs[1].to = sel.params.To
            /\ \A i \in DOMAIN tr :
                 /\ outs[1 + i].kind = "token"
                 /\ outs[1 + i].value = 0
                 /\ outs[1 + i].data = <<"TOKEN_TRANSFER", tr[i].TokenID, tr[i].To, tr[i].Amount>>
            /\ \A i \in DOMAIN da :
                 /\ outs[1 + Len(tr) + i].kind = "data"
                 /\ outs[1 + Len(tr) + i].value = 0
                 /\ outs[1 + Len(tr) + i].data = <<da[i].Data>>
            /\ Len(outs) > fixed => outs[Len(outs)].kind = "change"

\* a transaction with two markers, two data outputs and a change output
C31_Witness ==
    /\ sel # None
    /\ sel.stage = "built"
    /\ sel.build.err = ""
    /\ Len(sel.params.TokenTransfers) = 2
    /\ Len(sel.params.DataOutputs) = 2
    /\ Len(sel.build.outs) = 6
    /\ sel.build.outs[6].kind = "change"

(***************************************************************************)
(* C32: CalculateChange returns (change, true) exactly when                *)
(* change = total input value - amount - fee is strictly greater than      *)
(* DustLimit, and (0, false) when the change equals DustLimit or is        *)
(* smaller, zero and negative included; a change output is appended only   *)
(* in the first case.                                                      *)
(***************************************************************************)
C32_ChangeOnlyAboveDust ==
    (sel # None /\ sel.stage \in {"built", "tokens"} /\ sel.build.change # None) =>
        LET b == sel.build
            c == PlainSum(b.inputs) - sel.params.Amount - b.fee
        IN  IF c > config.tx.DustLimit
            THEN /\ b.change = [change |-> c, hasChange |-> TRUE]
                 /\ b.err = "" => Len(ChangeOutputs(b.outs)) = 1
            ELSE /\ b.change = [change |-> 0, hasChange |-> FALSE]
                 /\ ChangeOutputs(b.outs) = <<>>

\* a negative change: nothing is returned and no change output is appended
C32_Witness ==
    /\ sel # None
    /\ sel.stage = "built"
    /\ sel.build.err = ""
    /\ PlainSum(sel.build.inputs) - sel.params.Amount - sel.build.fee < 0
    /\ sel.build.change = [change |-> 0, hasChange |-> FALSE]
    /\ ChangeOutputs(sel.build.outs) = <<>>

\* a change just above the dust threshold is paid out
C32_WitnessAbove ==
    /\ sel # None
    /\ sel.stage = "built"
    /\ sel.build.err = ""
    /\ sel.build.change.hasChange
    /\ sel.build.change.change = config.tx.DustLimit + 74

(***************************************************************************)
(* C33: the inclusion flags of the transaction parameters govern which     *)
(* outputs may be spent.  A transaction built with                         *)
(* params.IncludeNativeUTXOs = false has no native output as an input, and *)
(* one built with params.IncludeNonNativeUTXOs = false has no non-native   *)
(* output as an input, whatever the stored transaction configuration says. *)
(***************************************************************************)
C33_ParamsFlagsGovern ==
    \A p \in Procs :
        LET r == proc[p]
        IN  (/\ r.op \in {"BuildTransaction", "SignAndSendTransaction"}
             /\ r.pc = "done"
             /\ r.err = NoErr) =>
                \A i \in DOMAIN r.selected :
                    /\ r.selected[i].isNative => r.params.IncludeNativeUTXOs
                    /\ ~r.selected[i].isNative => r.params.IncludeNonNativeUTXOs

(***************************************************************************)
(* C34: makeRequest reports success only if one of its attempts received   *)
(* a 200 response whose body was read and decoded: a GetUTXOs call that    *)
(* returned without error and was not served from the cache has issued at  *)
(* least one request and its last attempt succeeded, for every retry       *)
(* budget SetRetryConfig accepts, a budget of zero included.               *)
(***************************************************************************)
C34_SuccessNeedsResponse ==
    \A p \in Procs :
        LET r == proc[p]
        IN  (/\ r.op = "GetUTXOs"
             /\ r.pc = "done"
             /\ r.err = NoErr
             /\ ~r.ghit) =>
                /\ r.nreq >= 1
                /\ r.outcomes # <<>>
                /\ r.outcomes[Len(r.outcomes)] = "ok"

(***************************************************************************)
(* C35: an invalidation is not undone by a fetch in flight: a GetUTXOs     *)
(* call that had received its response when ClearCache or                  *)
(* ClearCacheForAddress of its address ran does not store that response in *)
(* the cache afterwards.                                                   *)
(***************************************************************************)
C35_InvalidationNotUndone ==
    \A p \in Procs :
        LET r == proc[p]
        IN  (/\ r.op = "GetUTXOs"
             /\ r.pc = "done"
             /\ r.inval) => ~r.wrote

(***************************************************************************)
(* C36: every entry GetUTXOs can serve holds the output list of a          *)
(* completed fetch: a GetUTXOs call served from the cache returns an empty *)
(* list only if the address has no output to report.  (Outputs are never   *)
(* spent here and the configuration is fixed, so an address that has no    *)
(* reportable output now had none at any earlier fetch.)                   *)
(***************************************************************************)
C36_ServedListWasFetched ==
    \A p \in Procs :
        LET r == proc[p]
        IN  (/\ r.op = "GetUTXOs"
             /\ r.pc = "done"
             /\ r.err = NoErr
             /\ r.ghit
             /\ r.utxos = <<>>) =>
                ConvertResponses(UnspentResponse(chain.unspent, r.addr), <<>>,
                                 config.utxo) = <<>>

(***************************************************************************)
(* C37: a failed discovery leaves the cache untouched.  With one caller:   *)
(* a GetUTXOs or GetEnhancedBalance call that returns an error returns no  *)
(* output list and no snapshot and has stored nothing; and every step of a *)
(* call that has stored nothing so far leaves the cache with the same      *)
(* entries, contents and timestamps.                                       *)
(***************************************************************************)
C37_Step(p) ==
    LET r == proc[p]
        r2 == proc'[p]
    IN  /\ (/\ r.pc \notin {"idle", "done"}
            /\ r2.pc = "done"
            /\ r2.err # NoErr) =>
               /\ r2.utxos = <<>>
               /\ r2.bal = None
               /\ ~r2.wrote
        /\ (/\ r.pc \notin {"idle", "done"}
            /\ ~r2.wrote) =>
               /\ cache' = cache
               /\ \A a \in Addrs : cache[a] # NoObj => heap'[cache[a]] = heap[cache[a]]

C37_FailureLeavesCache == [][C37_Step("p1")]_vars

\* a balance call failed at its output request while the cache held an expired entry
C37_Witness ==
    /\ proc["p1"].op = "GetEnhancedBalance"
    /\ proc["p1"].pc = "done"
    /\ proc["p1"].err # NoErr
    /\ proc["p1"].nreq >= 2
    /\ cache["a1"] # NoObj
    /\ heap[cache["a1"]].utxos # <<>>

(***************************************************************************)
(* C38: the funding check of SelectUTXOs is sound over the whole word      *)
(* range: a successful selection returns outputs whose values add up, as   *)
(* integers and without wrapping, to at least the amount plus the fee.     *)
(***************************************************************************)
RECURSIVE C38_Sum(_)
C38_Sum(s) == IF s = <<>> THEN 0 ELSE s[1].value + C38_Sum(Tail(s))

C38_FundingSound ==
    (/\ sel # None
     /\ sel.stage = "selected"
     /\ sel.select.err = "") =>
        C38_Sum(sel.select.utxos) >= sel.params.Amount + sel.select.fee

(***************************************************************************)
(* C39: in the result of a successful SignAndSendTransaction every entry   *)
(* of OutputsCreated says whether it is a data output: IsData is true      *)
(* exactly for the token-marker and data-payload outputs of the            *)
(* transaction, false for the payment and the change.                      *)
(***************************************************************************)
C39_IsDataAnnotated ==
    \A p \in Procs :
        LET r == proc[p]
        IN  (/\ r.op = "SignAndSendTransaction"
             /\ r.pc = "done"
             /\ r.err = NoErr
             /\ r.result # None) =>
                /\ Len(r.result.OutputsCreated) = Len(r.tx)
                /\ \A i \in DOMAIN r.tx :
                      r.result.OutputsCreated[i].IsData = (r.tx[i].kind \in {"token", "data"})

(***************************************************************************)
(* C40: every output returned by GetUTXOs, fresh or cached, is tagged      *)
(* native with an empty token id and a zero token amount; the balance      *)
(* snapshot built from such a list has a non-native count of 0 and an      *)
(* empty token map; and a transaction request with a token transfer always *)
(* fails at selection with an insufficient-token-balance error, without a  *)
(* broadcast.  (The statement as written.)                                 *)
(***************************************************************************)
C40_Native(p) ==
    LET r == proc[p]
        b == EnhancedBalance(BalanceResponse(chain.unspent, r.addr), r.utxos, config.utxo)
    IN  (r.pc \in {"T_selected", "T_result2"} /\ r.gerr = NoErr) =>
            /\ \A i \in DOMAIN r.utxos :
                  /\ r.utxos[i].isNative
                  /\ r.utxos[i].tokenID = ""
                  /\ r.utxos[i].tokenAmount = 0
            /\ b.NonNative.UTXOCount = 0
            /\ DOMAIN b.NonNative.Tokens = {}

C40_TokenRequest(p) ==
    /\ proc[p].op \in {"BuildTransaction", "SignAndSendTransaction"}
    /\ Len(proc[p].params.TokenTransfers) > 0

C40_AlwaysInsufficientTokens ==
    \A p \in Procs :
        /\ C40_Native(p)
        /\ (C40_TokenRequest(p) /\ proc[p].pc = "done") =>
              /\ proc[p].failedAt = "select"
              /\ proc[p].err = "insufficient_token_balance"
              /\ proc[p].nbcast = 0

(***************************************************************************)
(* C40, as the code has it: the outputs and the snapshot are as stated; a  *)
(* request with a token transfer never gets past selection, is never       *)
(* broadcast and never succeeds: it fails at validation or at the sender   *)
(* check, or at selection, there with the error of the output request when *)
(* that failed and with insufficient-token-balance whenever the output     *)
(* list was obtained.                                                      *)
(***************************************************************************)
C40_TokenRequestsStopAtSelection ==
    \A p \in Procs :
        /\ C40_Native(p)
        /\ C40_TokenRequest(p) =>
              /\ proc[p].nbcast = 0
              /\ proc[p].trace \in {<<>>, <<"validate">>, <<"validate", "resolve">>,
                                    <<"validate", "resolve", "select">>}
              /\ proc[p].pc = "done" =>
                    /\ proc[p].err # NoErr
                    /\ proc[p].result = None
                    /\ proc[p].failedAt \in {"validate", "resolve", "select"}
                    /\ (proc[p].failedAt = "select" /\ proc[p].err \notin FailKinds) =>
                          proc[p].err = "insufficient_token_balance"

\* a well-formed token request found the outputs of its sender, all native, and failed
C40_Witness ==
    /\ C40_TokenRequest("p1")
    /\ proc["p1"].pc = "done"
    /\ proc["p1"].trace = <<"validate", "resolve", "select">>
    /\ proc["p1"].err = "insufficient_token_balance"
    /\ proc["p1"].nreq >= 1

====
